---- MODULE Spec2Model ----
(***************************************************************************)
(* Teleportation and scroll-coordination engine of open-carousel.          *)
(*                                                                         *)
(* The coordinator reducer, the teleport hook (reactive, deferred and      *)
(* proactive teleports), the arrow-navigation controller and the scroll    *)
(* completion watcher are translated from the hooks; the scrollable        *)
(* viewport (offset, smooth-scroll animation, scroll / scrollend events,   *)
(* animation frames, timers) is the environment they run in.               *)
(* Offsets are integer pixels.                                             *)
(***************************************************************************)
EXTENDS Integers, Sequences, FiniteSets, TLC

\* ------------------------------------------------------------------------
\* Program constants (config.ts as reproduced in README.md, and literals)
\* ------------------------------------------------------------------------
NULL == -1

INITIAL_CARD_WIDTH == 180
INITIAL_GAP == 16
MIN_BUFFER_COUNT == 50
SAFETY_THRESHOLD == 500
EDGE_TOLERANCE_START == 20
EDGE_TOLERANCE_END == 5
FINITE_PADDING == 16

\* ------------------------------------------------------------------------
\* Bounds of the model
\* ------------------------------------------------------------------------
\* largest number of items passed to the carousel
MaxItems == 2
\* arrow clicks, item clicks and user scroll movements in one behaviour
MaxUserActions == 2

Abs(v) == IF v < 0 THEN 0 - v ELSE v
Min(a, b) == IF a < b THEN a ELSE b
Max(a, b) == IF a > b THEN a ELSE b

\* layout.cardWidth + layout.gap; the DOM stride agrees with it
Stride == INITIAL_CARD_WIDTH + INITIAL_GAP
StrideHalf == Stride \div 2

\* Math.round(v / Stride): half-way cases round up
RoundDiv(v, s) == (2 * v + s) \div (2 * s)
\* Math.ceil(a / b) for positive a, b
CeilDiv(a, b) == (a + b - 1) \div b

\* ------------------------------------------------------------------------
\* Buffer geometry (Carousel.tsx clonesBefore / clonesAfter / allItems)
\* ------------------------------------------------------------------------
\* repeat count that rounds MIN_BUFFER_COUNT / items.length down
RepeatCountFloor(n) == Max(1, MIN_BUFFER_COUNT \div n)

\* count = Math.max(1, Math.ceil(MIN_BUFFER_COUNT / items.length))
RepeatCount(n) == Max(1, CeilDiv(MIN_BUFFER_COUNT, n))
bufferBeforeCount(c) == IF c.infinite THEN RepeatCount(c.itemsCount) * c.itemsCount ELSE 0
TotalItems(c) == 2 * bufferBeforeCount(c) + c.itemsCount
originalSetWidth(c) == c.itemsCount * Stride
bufferBeforeWidth(c) == bufferBeforeCount(c) * Stride

\* el.scrollWidth - el.clientWidth.  Infinite: the container pads both sides
\* with 50% - cardWidth/2, so the extent is (total - 1) strides.  Finite: 16px
\* padding on both sides around a container one stride wide.
MaxScroll(c) ==
    IF c.infinite THEN (TotalItems(c) - 1) * Stride
    ELSE 2 * FINITE_PADDING - INITIAL_GAP + (c.itemsCount - 1) * Stride

\* the browser clamps every scroll position to the scrollable extent
Clamp(c, v) == Max(0, Min(MaxScroll(c), v))

InSafeZone(c, v) ==
    v >= bufferBeforeWidth(c) /\ v < bufferBeforeWidth(c) + originalSetWidth(c)

\* ------------------------------------------------------------------------
\* Coordinator (useCarouselCoordinator.ts)
\* ------------------------------------------------------------------------
createInitialContext ==
    [ phase |-> "UNINITIALIZED",
      pendingTarget |-> NULL,
      scrollDirection |-> 0,
      teleportOffset |-> NULL,
      isTeleporting |-> FALSE,
      isPreTeleporting |-> FALSE,
      bounceTimeoutId |-> FALSE,
      hasScrollEndListener |-> FALSE ]

Phases == {"UNINITIALIZED", "IDLE", "SCROLLING", "BOUNCING",
           "PRE_TELEPORTING", "TELEPORTING", "DRAGGING"}

A_INITIALIZE == [type |-> "INITIALIZE"]
A_ARROW_CLICK(d, t) == [type |-> "ARROW_CLICK", direction |-> d, targetScroll |-> t]
A_ITEM_CLICK(t) == [type |-> "ITEM_CLICK", targetScroll |-> t]
A_SCROLL_COMPLETE == [type |-> "SCROLL_COMPLETE"]
A_USER_INTERRUPT == [type |-> "USER_INTERRUPT"]
A_START_BOUNCE == [type |-> "START_BOUNCE"]
A_END_BOUNCE == [type |-> "END_BOUNCE"]
A_START_PRE_TELEPORT == [type |-> "START_PRE_TELEPORT"]
A_EXECUTE_TELEPORT(o) == [type |-> "EXECUTE_TELEPORT", offset |-> o]
A_END_TELEPORT == [type |-> "END_TELEPORT"]
A_START_DRAG == [type |-> "START_DRAG"]
A_END_DRAG == [type |-> "END_DRAG"]
A_SET_TELEPORTING(v) == [type |-> "SET_TELEPORTING", value |-> v]
A_SET_PRE_TELEPORTING(v) == [type |-> "SET_PRE_TELEPORTING", value |-> v]
A_SET_PENDING_TARGET(t) == [type |-> "SET_PENDING_TARGET", target |-> t]

\* USER_INTERRUPT that leaves the Scrolling phase but keeps the target
reduceUserInterruptKeepsTarget(context) ==
    IF context.phase = "SCROLLING"
    THEN [context EXCEPT !.phase = "IDLE", !.scrollDirection = 0]
    ELSE context

\* case USER_INTERRUPT of reduce
reduceUserInterrupt(context) ==
    IF context.phase = "SCROLLING"
    THEN [context EXCEPT !.phase = "IDLE",
                         !.pendingTarget = NULL,
                         !.scrollDirection = 0]
    ELSE context

\* ARROW_CLICK accepted from every phase
reduceArrowClickUnguarded(context, action) ==
    [context EXCEPT !.phase = "SCROLLING",
                    !.pendingTarget = action.targetScroll,
                    !.scrollDirection = action.direction]

\* case ARROW_CLICK of reduce
reduceArrowClick(context, action) ==
    IF context.phase # "IDLE" /\ context.phase # "SCROLLING"
    THEN context
    ELSE [context EXCEPT !.phase = "SCROLLING",
                         !.pendingTarget = action.targetScroll,
                         !.scrollDirection = action.direction]

\* SCROLL_COMPLETE that keeps the direction of the finished scroll
reduceScrollCompleteKeepsDirection(context) ==
    IF context.phase # "SCROLLING"
    THEN context
    ELSE [context EXCEPT !.phase = "IDLE",
                         !.pendingTarget = NULL,
                         !.hasScrollEndListener = FALSE]

\* case SCROLL_COMPLETE of reduce
reduceScrollComplete(context) ==
    IF context.phase # "SCROLLING"
    THEN context
    ELSE [context EXCEPT !.phase = "IDLE",
                         !.pendingTarget = NULL,
                         !.scrollDirection = 0,
                         !.hasScrollEndListener = FALSE]

\* START_BOUNCE accepted from every phase
reduceStartBounceUnguarded(context) ==
    [context EXCEPT !.phase = "BOUNCING", !.bounceTimeoutId = TRUE]

\* case START_BOUNCE of reduce
reduceStartBounce(context) ==
    IF context.phase # "IDLE"
    THEN context
    ELSE [context EXCEPT !.phase = "BOUNCING", !.bounceTimeoutId = TRUE]

\* END_DRAG accepted from every phase
reduceEndDragUnguarded(context) ==
    [context EXCEPT !.phase = "IDLE"]

\* case END_DRAG of reduce
reduceEndDrag(context) ==
    IF context.phase # "DRAGGING"
    THEN context
    ELSE [context EXCEPT !.phase = "IDLE"]

\* SET_PRE_TELEPORTING that only writes the flag
reduceSetPreTeleportingFlagOnly(context, action) ==
    [context EXCEPT !.isPreTeleporting = action.value]

\* case SET_PRE_TELEPORTING of reduce
reduceSetPreTeleporting(context, action) ==
    IF action.value
    THEN [context EXCEPT !.isPreTeleporting = TRUE]
    ELSE [context EXCEPT
            !.isPreTeleporting = FALSE,
            !.phase = IF context.pendingTarget # NULL THEN "SCROLLING" ELSE "IDLE"]

\* SET_PENDING_TARGET ignored while a pre-teleport is in progress
reduceSetPendingTargetGuarded(context, action) ==
    IF context.phase = "PRE_TELEPORTING"
    THEN context
    ELSE [context EXCEPT !.pendingTarget = action.target]

\* case SET_PENDING_TARGET of reduce
reduceSetPendingTarget(context, action) ==
    [context EXCEPT !.pendingTarget = action.target]

\* END_TELEPORT that resolves the phase from every phase
reduceEndTeleportUnguarded(context) ==
    [context EXCEPT
        !.phase = IF context.pendingTarget # NULL THEN "SCROLLING" ELSE "IDLE",
        !.teleportOffset = NULL]

\* case END_TELEPORT of reduce
reduceEndTeleport(context) ==
    IF context.phase # "TELEPORTING"
    THEN context
    ELSE [context EXCEPT
            !.phase = IF context.pendingTarget # NULL THEN "SCROLLING" ELSE "IDLE",
            !.teleportOffset = NULL]

\* scrollDirection: 0 stands for null
reduce(context, action) ==
    CASE action.type = "INITIALIZE" ->
            [context EXCEPT !.phase = "IDLE"]
      [] action.type = "ARROW_CLICK" ->
            reduceArrowClick(context, action)
      [] action.type = "ITEM_CLICK" ->
            IF context.phase # "IDLE" /\ context.phase # "SCROLLING"
            THEN context
            ELSE [context EXCEPT !.phase = "SCROLLING",
                                 !.pendingTarget = action.targetScroll,
                                 !.scrollDirection = 0]
      [] action.type = "SCROLL_COMPLETE" ->
            reduceScrollComplete(context)
      [] action.type = "USER_INTERRUPT" ->
            reduceUserInterrupt(context)
      [] action.type = "START_BOUNCE" ->
            reduceStartBounce(context)
      [] action.type = "END_BOUNCE" ->
            IF context.phase # "BOUNCING"
            THEN context
            ELSE [context EXCEPT !.phase = "IDLE", !.bounceTimeoutId = FALSE]
      [] action.type = "START_PRE_TELEPORT" ->
            [context EXCEPT !.phase = "PRE_TELEPORTING"]
      [] action.type = "EXECUTE_TELEPORT" ->
            IF context.phase # "PRE_TELEPORTING"
            THEN context
            ELSE [context EXCEPT !.phase = "TELEPORTING",
                                 !.teleportOffset = action.offset]
      [] action.type = "END_TELEPORT" ->
            reduceEndTeleport(context)
      [] action.type = "START_DRAG" ->
            [context EXCEPT !.phase = "DRAGGING",
                            !.pendingTarget = NULL,
                            !.scrollDirection = 0]
      [] action.type = "END_DRAG" ->
            reduceEndDrag(context)
      [] action.type = "SET_TELEPORTING" ->
            [context EXCEPT !.isTeleporting = action.value]
      [] action.type = "SET_PRE_TELEPORTING" ->
            reduceSetPreTeleporting(context, action)
      [] action.type = "SET_PENDING_TARGET" ->
            reduceSetPendingTarget(context, action)
      [] OTHER -> context

\* ------------------------------------------------------------------------
\* Teleport hook (useCarouselTeleport)
\* ------------------------------------------------------------------------

\* early returns that forget the pending target of a navigation
performTeleportBlockedOnlyByFlag(context, source) ==
    context.isTeleporting

\* performTeleport, the two early returns
performTeleportBlocked(context, source) ==
    \/ context.isTeleporting
    \/ (context.pendingTarget # NULL /\ source = "scroll")

\* "Teleport Back" condition with an exclusive upper threshold
needsBackTeleportStrict(c, currentScroll) ==
    currentScroll > bufferBeforeWidth(c) + originalSetWidth(c)

\* performTeleport, "Teleport Back" condition
needsBackTeleport(c, currentScroll) ==
    currentScroll >= bufferBeforeWidth(c) + originalSetWidth(c)

\* "Teleport Forward" condition with an inclusive lower threshold
needsForwardTeleportInclusive(c, currentScroll) ==
    currentScroll <= bufferBeforeWidth(c)

\* performTeleport, "Teleport Forward" condition
needsForwardTeleport(c, currentScroll) ==
    currentScroll < bufferBeforeWidth(c)

\* adjustment by a single set, whatever the overshoot
backAdjustOneSet(c, currentScroll) ==
    originalSetWidth(c)

\* setsPassed * originalSetWidth
backAdjust(c, currentScroll) ==
    ((currentScroll - bufferBeforeWidth(c)) \div originalSetWidth(c)) * originalSetWidth(c)

\* forward adjustment by one card
forwardAdjustOneStride(c, currentScroll) ==
    Stride

\* "Teleport Forward": newPos = currentScroll + originalSetWidth
forwardAdjust(c, currentScroll) ==
    originalSetWidth(c)

\* transitions of a rewrite that never lowers the isTeleporting flag
teleportTransitionsFlagLeftUp(context) ==
    reduce(reduce(context, A_SET_TELEPORTING(TRUE)), A_END_TELEPORT)

\* the coordinator transitions that surround the offset rewrite
teleportTransitions(context) ==
    reduce(reduce(reduce(context, A_SET_TELEPORTING(TRUE)),
                  A_SET_TELEPORTING(FALSE)),
           A_END_TELEPORT)

\* performTeleport(source): result context, offset, and whether it rewrote
performTeleport(c, context, currentScroll, source) ==
    LET none == [ctx |-> context, scrollLeft |-> currentScroll,
                 did |-> FALSE, blocked |-> FALSE]
    IN  IF performTeleportBlocked(context, source)
        THEN [none EXCEPT !.blocked = TRUE]
        ELSE IF needsBackTeleport(c, currentScroll)
        THEN IF backAdjust(c, currentScroll) > 0
             THEN [ctx |-> teleportTransitions(context),
                   scrollLeft |-> Clamp(c, currentScroll - backAdjust(c, currentScroll)),
                   did |-> TRUE, blocked |-> FALSE]
             ELSE none
        ELSE IF needsForwardTeleport(c, currentScroll)
        THEN [ctx |-> teleportTransitions(context),
              scrollLeft |-> Clamp(c, currentScroll + forwardAdjust(c, currentScroll)),
              did |-> TRUE, blocked |-> FALSE]
        ELSE none

\* handleScroll that requests a frame for every scroll event
handleScrollAlwaysRequests(id, pending) == [rafId |-> TRUE, pending |-> pending + 1]

\* handleScroll of the teleport hook: with a frame already requested (rafId
\* set) it returns, else it requests one; the handle and the callbacks queued
handleScroll(id, pending) ==
    IF id
    THEN [rafId |-> id, pending |-> pending]
    ELSE [rafId |-> TRUE, pending |-> pending + 1]

\* frame callback that does not look at the pre-teleport guard
handleScrollEvaluatesUnguarded(context, touch) ==
    /\ ~context.isTeleporting
    /\ ~touch

\* the animation-frame callback of handleScroll: does it call performTeleport
handleScrollEvaluates(context, touch) ==
    /\ ~(context.isTeleporting \/ context.isPreTeleporting)
    /\ ~touch

\* handleScrollEnd: snapSkew > 0.05, with rawIndex = (scroll - padding) / stride
midSnap(c, currentScroll) ==
    LET d == (currentScroll - c.paddingOffset) % Stride
        dist == Min(d, Stride - d)
    IN  20 * dist > Stride

\* handleScrollEnd: does it call performTeleport('scrollend')
handleScrollEndEvaluates(c, context, touch, currentScroll) ==
    /\ touch
    /\ context.pendingTarget = NULL
    /\ ~midSnap(c, currentScroll)

\* handlePointerDown (touch): the safety valve
dangerouslyClose(c, currentScroll) ==
    \/ currentScroll < SAFETY_THRESHOLD
    \/ currentScroll > MaxScroll(c) - SAFETY_THRESHOLD

\* left test that takes the first offset of the safe zone for outside
needsLeftPreTeleportInclusive(c, targetScroll) == targetScroll <= bufferBeforeWidth(c)
\* preTeleport: target outside the safe zone
needsLeftPreTeleport(c, targetScroll) == targetScroll < bufferBeforeWidth(c)
needsRightPreTeleport(c, targetScroll) ==
    targetScroll >= bufferBeforeWidth(c) + originalSetWidth(c)

\* offset of two set widths
preTeleportOffsetTwoSets(c, targetScroll) ==
    IF needsLeftPreTeleport(c, targetScroll)
    THEN 2 * originalSetWidth(c)
    ELSE 0 - 2 * originalSetWidth(c)

\* offset = needsLeft ? originalSetWidth : -originalSetWidth
preTeleportOffset(c, targetScroll) ==
    IF needsLeftPreTeleport(c, targetScroll)
    THEN originalSetWidth(c)
    ELSE 0 - originalSetWidth(c)

\* the coordinator transitions of preTeleport, in program order
preTeleportTransitions(context, adjustedTarget) ==
    reduce(reduce(reduce(reduce(reduce(context,
        A_SET_PRE_TELEPORTING(TRUE)),
        A_START_PRE_TELEPORT),
        A_SET_TELEPORTING(TRUE)),
        A_SET_TELEPORTING(FALSE)),
        A_SET_PENDING_TARGET(adjustedTarget))

\* preTeleport that does not ask whether the carousel is infinite
preTeleportAlsoFinite(c, context, currentScroll, targetScroll) ==
    IF ~needsLeftPreTeleport(c, targetScroll) /\ ~needsRightPreTeleport(c, targetScroll)
    THEN [ret |-> targetScroll, ctx |-> context, scrollLeft |-> currentScroll, did |-> FALSE]
    ELSE [ret |-> targetScroll + preTeleportOffset(c, targetScroll),
          ctx |-> preTeleportTransitions(context, targetScroll + preTeleportOffset(c, targetScroll)),
          scrollLeft |-> Clamp(c, currentScroll + preTeleportOffset(c, targetScroll)),
          did |-> TRUE]

\* preTeleport(targetScroll): returned target, context, offset, whether it
\* teleported (and then armed one guard-clear timer)
preTeleport(c, context, currentScroll, targetScroll) ==
    IF ~c.infinite \/ c.itemsCount = 0
    THEN [ret |-> targetScroll, ctx |-> context, scrollLeft |-> currentScroll, did |-> FALSE]
    ELSE IF ~needsLeftPreTeleport(c, targetScroll) /\ ~needsRightPreTeleport(c, targetScroll)
    THEN [ret |-> targetScroll, ctx |-> context, scrollLeft |-> currentScroll, did |-> FALSE]
    ELSE [ret |-> targetScroll + preTeleportOffset(c, targetScroll),
          ctx |-> preTeleportTransitions(context, targetScroll + preTeleportOffset(c, targetScroll)),
          scrollLeft |-> Clamp(c, currentScroll + preTeleportOffset(c, targetScroll)),
          did |-> TRUE]

\* ------------------------------------------------------------------------
\* Navigation controller (useCarouselNavigation) and completion watcher
\* ------------------------------------------------------------------------

\* a position check that tolerates a whole stride
notAtTargetFullStride(currentPos, targetPos) == Abs(currentPos - targetPos) > Stride

\* onAnimationComplete: distanceToTarget > stride * SCROLL_TARGET_TOLERANCE_RATIO (0.5)
notAtTarget(currentPos, targetPos) == 2 * Abs(currentPos - targetPos) > Stride

onAnimationComplete(context, currentPos, source) ==
    IF context.pendingTarget = NULL /\ source # "safety-timeout" THEN context
    ELSE IF context.isPreTeleporting THEN context
    ELSE IF context.pendingTarget # NULL /\ notAtTarget(currentPos, context.pendingTarget)
    THEN context
    ELSE reduce(context, A_SCROLL_COMPLETE)

\* handleScrollNav: idle target (DOM anchor when rendered, arithmetic otherwise)
idleTarget(c, currentScroll, direction) ==
    LET nextIndex == RoundDiv(currentScroll, Stride) + direction
    IN  IF c.infinite /\ nextIndex >= 0 /\ nextIndex < TotalItems(c)
        THEN nextIndex * Stride
        ELSE (IF c.infinite THEN c.paddingOffset ELSE 0) + nextIndex * Stride

\* edge test that knows the start only
atEdgeStartOnly(c, currentScroll, direction) ==
    /\ ~c.infinite
    /\ direction = -1
    /\ currentScroll <= EDGE_TOLERANCE_START

\* handleScrollNav: finite carousel at the edge and asked to go further
atEdge(c, currentScroll, direction) ==
    /\ ~c.infinite
    /\ \/ (direction = -1 /\ currentScroll <= EDGE_TOLERANCE_START)
       \/ (direction = 1 /\ currentScroll >= MaxScroll(c) - EDGE_TOLERANCE_END)

\* a watcher [listener, debounce, stale, safety]: listener registered, its
\* debounce timer armed, debounce timers of replaced listeners still armed,
\* safety timeouts armed
NoWatcher == [listener |-> FALSE, debounce |-> FALSE, stale |-> 0, safety |-> 0]

\* clearTimeout(activeTimeoutRef.current): the referenced timeout, if armed
clearActiveTimeout(n) == IF n > 0 THEN n - 1 ELSE 0

\* waitForScrollCompletion that arms a safety timeout without clearing the last
waitForScrollCompletionKeepsTimeout(c, w) ==
    IF c.supportsScrollEnd
    THEN [listener |-> TRUE, debounce |-> FALSE, stale |-> w.stale, safety |-> w.safety]
    ELSE [listener |-> TRUE, debounce |-> FALSE,
          stale |-> w.stale + (IF w.debounce THEN 1 ELSE 0), safety |-> w.safety + 1]

\* waitForScrollCompletion: the previous listener and safety timeout are
\* dropped; a debounce timer of the previous listener is not cleared and
\* stays armed (stale)
waitForScrollCompletion(c, w) ==
    IF c.supportsScrollEnd
    THEN [listener |-> TRUE, debounce |-> FALSE, stale |-> w.stale,
          safety |-> clearActiveTimeout(w.safety)]
    ELSE [listener |-> TRUE, debounce |-> FALSE,
          stale |-> w.stale + (IF w.debounce THEN 1 ELSE 0),
          safety |-> clearActiveTimeout(w.safety) + 1]


\* ------------------------------------------------------------------------
\* Active item (Carousel.tsx getActiveItemAtScroll)
\* ------------------------------------------------------------------------
\* Math.floor(a / b) and Math.ceil(a / b) for b > 0 and any integer a
FloorDiv(a, b) == IF a >= 0 THEN a \div b ELSE 0 - ((0 - a + b - 1) \div b)
CeilDivInt(a, b) == 0 - FloorDiv(0 - a, b)

\* totalIndex: the slot selected at an offset, with the eager bias of the
\* scroll direction; EAGER_THRESHOLD is 0.3 (eager) or 0.5, in tenths here
selectedSlot(currentScroll, direction, eager) ==
    LET tenths == IF eager THEN 3 ELSE 5
    IN  IF direction > 0
        THEN FloorDiv(10 * currentScroll + (10 - tenths) * Stride, 10 * Stride)
        ELSE IF direction < 0
        THEN CeilDivInt(10 * currentScroll - (10 - tenths) * Stride, 10 * Stride)
        ELSE FloorDiv(2 * currentScroll + Stride, 2 * Stride)

\* getActiveItemAtScroll: index into items of the item selected at an
\* offset, NULL when there is none (stride <= 0 is not modelled: the stride
\* is the constant layout stride)
getActiveItemAtScroll(c, currentScroll, direction, eager) ==
    IF c.itemsCount = 0 THEN NULL
    ELSE IF c.infinite
    THEN (selectedSlot(currentScroll, direction, eager) - bufferBeforeCount(c))
            % c.itemsCount
    ELSE Max(0, Min(selectedSlot(currentScroll, direction, eager), c.itemsCount - 1))

\* ------------------------------------------------------------------------
\* Rendered sequence (Carousel.tsx clonesBefore / clonesAfter / allItems)
\* ------------------------------------------------------------------------
\* the items prop: item i of n
itemsOf(c) == [i \in 1..c.itemsCount |-> i]

\* Array(count).fill(items).flat()
RECURSIVE fillFlat(_, _)
fillFlat(count, its) == IF count = 0 THEN <<>> ELSE its \o fillFlat(count - 1, its)

\* clonesBefore, and clonesAfter alike
clonesOf(c) ==
    IF c.infinite /\ c.itemsCount > 0
    THEN fillFlat(RepeatCount(c.itemsCount), itemsOf(c))
    ELSE <<>>

buildAllItems(c) == clonesOf(c) \o itemsOf(c) \o clonesOf(c)

\* ------------------------------------------------------------------------
\* Resize-driven measurement (useCarouselLayout, ResizeObserver effect)
\* ------------------------------------------------------------------------
\* resizeDebounceMs, in clock ticks
DebounceTicks == 2
\* resize observations in one mount
MaxObservations == 4

\* card widths the DOM can report
CardWidths == {INITIAL_CARD_WIDTH, 280}

\* the effect after mount: isFirstObservation, the armed debounce timeouts
\* (ticks left), the DOM card width and the measured one; then the record of
\* the mount: observations, measurements made inside an observation and by a
\* timeout, bursts begun, ticks since the last observation (up to
\* DebounceTicks) and that number when the last timeout fired
createLayout ==
    [isFirstObservation |-> TRUE, timers |-> <<>>, domWidth |-> INITIAL_CARD_WIDTH,
     cardWidth |-> INITIAL_CARD_WIDTH, observations |-> 0, immediate |-> 0,
     delayed |-> 0, bursts |-> 0, age |-> 0, firedAge |-> NULL]

\* ResizeObserver callback that arms a timeout without clearing the last one
onResizeKeepsTimeout(l) ==
    IF l.isFirstObservation
    THEN [l EXCEPT !.isFirstObservation = FALSE, !.cardWidth = l.domWidth]
    ELSE [l EXCEPT !.timers = Append(l.timers, DebounceTicks)]

\* ResizeObserver callback: the first observation measures at once, a later
\* one clears the armed timeout and arms a new one
onResize(l) ==
    IF l.isFirstObservation
    THEN [l EXCEPT !.isFirstObservation = FALSE, !.cardWidth = l.domWidth]
    ELSE [l EXCEPT !.timers = <<DebounceTicks>>]

\* ------------------------------------------------------------------------
\* End-reached callback (useDraggableScroll, scroll effect)
\* ------------------------------------------------------------------------
\* the 1000 ms between two invocations, in clock ticks
RateLimitTicks == 2
\* invocations of onEndReached in one behaviour
MaxEndReached == 3

\* el.clientWidth: a card, and the padding on both sides
clientWidth(c) == Stride + 2 * c.paddingOffset

\* distToEnd < threshold
nearEnd(c, x) == MaxScroll(c) - x < 2 * clientWidth(c)

\* rate limit that always lets the call through
endReachedDueAlways(elapsed) == TRUE

\* now - lastEndReachedTime.current > 1000
endReachedDue(elapsed) == elapsed > RateLimitTicks

\* the effect after mount: ticks since lastEndReachedTime (up to one more
\* than RateLimitTicks), the hasNextPage prop; then the record: invocations
\* of the hook's onEndReached and of the prop, invocations since the offset
\* last was outside the threshold, and the last check made
createReach ==
    [elapsed |-> RateLimitTicks + 1, hasNextPage |-> FALSE, calls |-> 0, loads |-> 0,
     stayCalls |-> 0,
     last |-> [checked |-> FALSE, inside |-> FALSE, elapsed |-> 0, fired |-> FALSE]]

\* handleScroll of the effect at offset x, and Carousel.tsx handleEndReached
endReachedCheck(c, r, x) ==
    LET fires == nearEnd(c, x) /\ endReachedDue(r.elapsed)
    IN  [r EXCEPT !.elapsed = IF fires THEN 0 ELSE @,
                  !.calls = IF fires THEN @ + 1 ELSE @,
                  !.loads = IF fires /\ r.hasNextPage THEN @ + 1 ELSE @,
                  !.stayCalls = IF ~nearEnd(c, x) THEN 0
                                ELSE IF fires THEN @ + 1 ELSE @,
                  !.last = [checked |-> TRUE, inside |-> nearEnd(c, x),
                            elapsed |-> r.elapsed, fired |-> fires]]

\* ------------------------------------------------------------------------
\* Drag physics (useDraggableScroll)
\* ------------------------------------------------------------------------
MIN_VELOCITY_THRESHOLD == 10
MAX_VELOCITY == 500
SNAP_THRESHOLD == 30
PULL_RESISTANCE_PCT == 35
MAX_PULL_DISTANCE == 80
BOUNCE_DISTANCE == 35

\* pointer-downs in one behaviour
MaxPresses == 1

\* pointer displacements since the press (pageX - startX), in px
Walks == {-60, 0, 60}
\* smoothed pointer velocities, in tenths of px/ms
Velocities == {-25, 0, 25}

\* el.style.transform: '' or translateX(x), x in hundredths of a px
NoTransform == [set |-> FALSE, x |-> 0]
translateX(v) == [set |-> TRUE, x |-> v]

\* the animation whose frame callback is requested: kind "none", "snapBack",
\* "snap", "bounce" or "momentum", with the values its closure holds
NoAnim == [kind |-> "none", from |-> 0, to |-> 0, vel |-> 0, dir |-> 0, frames |-> 0]

NoPull == [stage |-> "none", at |-> 0]

\* the hook after mount: refs, the dragging state and the value of it the
\* memoised handlers see, armed setTimeout(setIsDragging(false), 0) calls,
\* transform, animation; then the record of the gesture: presses made, the
\* last handler, whether it found the pointer pressed and left all as it
\* was, and the edge pull (pulling, released, finished) with the offset it
\* began at
createDrag ==
    [isDown |-> FALSE, isDragging |-> FALSE, rendered |-> FALSE, clearTimers |-> 0,
     isPullingEdge |-> FALSE, currentPullOffset |-> 0, transform |-> NoTransform,
     anim |-> NoAnim, isBouncing |-> FALSE, velocity |-> 0, scrollLeftStart |-> 0,
     startedAtLeftEdge |-> FALSE, startedAtRightEdge |-> FALSE, hasNextPage |-> FALSE,
     presses |-> 0, last |-> "none", wasDown |-> FALSE, same |-> TRUE, pull |-> NoPull]

\* ------------------------------------------------------------------------
\* Active-item effect, teleport hook options, visuals: the records at mount
\* ------------------------------------------------------------------------
\* no onActiveItemChange call: whether one was made, the path that made it
\* (or looked and made none), the item, the item of the call before it, and
\* the coordinator's pendingTarget and isTeleporting at that moment
NoCall ==
    [made |-> FALSE, path |-> "none", item |-> NULL, previous |-> NULL,
     pending |-> NULL, teleporting |-> FALSE]

\* lastActiveItemRef (null), lastScrollLeftRef (0), lastMeaningfulDirectionRef
\* (0), whether EAGER_THRESHOLD is the eager one, the item last handed to
\* onActiveItemChange, navigations made, and the last call
createActive ==
    [last |-> NULL, lastScrollLeft |-> 0, lastDirection |-> 0, eager |-> FALSE,
     reported |-> NULL, navs |-> 0, call |-> NoCall]

\* useCarouselTeleport options (containerRef.current present, infinite,
\* itemsCount, the stride in effect) and the record of the last call into the
\* hook: which, its argument and return value, the scroll offset writes and
\* the coordinator transitions it made
createHook ==
    [container |-> TRUE, infinite |-> TRUE, itemsCount |-> 1, stride |-> Stride,
     op |-> "none", arg |-> NULL, ret |-> NULL, writes |-> 0, dispatches |-> 0]

\* useCarouselVisuals: viewport class, the two disable props, the position
\* cache (childrenPositions), and the styles the last applyVisuals call wrote
createVisuals ==
    [viewport |-> "desktop", disableOpacityEffect |-> FALSE,
     disableScaleEffect |-> FALSE, positions |-> <<>>, applied |-> FALSE,
     styles |-> {}]

\* Math.sqrt, rounded down
isqrt(v) == CHOOSE r \in 0..(100 * MAX_PULL_DISTANCE) : r * r <= v /\ v < (r + 1) * (r + 1)

\* v * 0.96, towards zero
friction(v) == IF v < 0 THEN 0 - ((0 - v) * 96) \div 100 ELSE (v * 96) \div 100

cancelAnimation(d, force) ==
    IF d.isBouncing /\ ~force THEN d
    ELSE [d EXCEPT !.anim = NoAnim, !.transform = NoTransform, !.currentPullOffset = 0,
                   !.isPullingEdge = FALSE, !.isBouncing = FALSE]

\* findNearestSnapPoint: the cards are centred at the multiples of the
\* stride; with a direction only cards on that side count, and with none
\* there the offset itself is returned
findNearestSnapPoint(c, x, direction) ==
    LET nearest == ((2 * x + Stride - 1) \div (2 * Stride)) * Stride
        below == ((x - 1) \div Stride) * Stride
        above == (x \div Stride + 1) * Stride
    IN  IF direction = 0 THEN Clamp(c, nearest)
        ELSE IF direction > 0 THEN (IF x > 0 THEN Clamp(c, below) ELSE Clamp(c, x))
        ELSE IF above <= (TotalItems(c) - 1) * Stride THEN Clamp(c, above)
        ELSE Clamp(c, x)

snapToPosition(d, x, targetScroll) ==
    IF Abs(targetScroll - x) < 1 THEN d
    ELSE [d EXCEPT !.anim = [NoAnim EXCEPT !.kind = "snap", !.from = x,
                                           !.to = targetScroll]]

snapBack(d) ==
    IF d.isBouncing THEN d
    ELSE IF Abs(d.currentPullOffset) < 100
    THEN [d EXCEPT !.currentPullOffset = 0, !.isPullingEdge = FALSE,
                   !.transform = NoTransform]
    ELSE [d EXCEPT !.currentPullOffset = 0, !.isPullingEdge = FALSE,
                   !.anim = [NoAnim EXCEPT !.kind = "snapBack",
                                           !.from = d.currentPullOffset]]

triggerBounce(c, d, direction) ==
    IF c.infinite \/ (direction = "right" /\ d.hasNextPage) THEN d
    ELSE [cancelAnimation(d, TRUE) EXCEPT
            !.isBouncing = TRUE,
            !.anim = [NoAnim EXCEPT !.kind = "bounce",
                                    !.dir = IF direction = "left" THEN 1 ELSE -1]]

startMomentumScroll(c, d, x) ==
    LET currentVel == Max(0 - MAX_VELOCITY, Min(MAX_VELOCITY, (d.velocity * 16) \div 10))
        initialDirection == IF currentVel > 0 THEN 1 ELSE IF currentVel < 0 THEN -1 ELSE 0
    IN  IF Abs(currentVel) <= MIN_VELOCITY_THRESHOLD
        THEN snapToPosition(d, x, findNearestSnapPoint(c, x, 0))
        ELSE IF x <= 0 /\ currentVel > 0 THEN triggerBounce(c, d, "left")
        ELSE IF x >= MaxScroll(c) /\ currentVel < 0 THEN triggerBounce(c, d, "right")
        ELSE [d EXCEPT !.anim = [NoAnim EXCEPT !.kind = "momentum", !.vel = currentVel,
                                               !.dir = initialDirection]]

\* endDrag that goes on to the momentum scroll after the snap-back
endDragFallsThrough(c, d, x) ==
    IF ~d.isDown THEN d
    ELSE LET d1 == [d EXCEPT !.isDown = FALSE]
             d2 == IF d1.isPullingEdge THEN snapBack(d1) ELSE d1
         IN  [(IF d.rendered THEN startMomentumScroll(c, d2, x) ELSE d2)
                 EXCEPT !.clearTimers = @ + 1]

\* endDrag, memoised on the dragging state it was rendered with
endDrag(c, d, x) ==
    IF ~d.isDown THEN d
    ELSE LET d1 == [d EXCEPT !.isDown = FALSE]
         IN  IF d1.isPullingEdge
             THEN [snapBack(d1) EXCEPT !.clearTimers = @ + 1]
             ELSE [(IF d.rendered THEN startMomentumScroll(c, d1, x) ELSE d1)
                      EXCEPT !.clearTimers = @ + 1]

onPointerDown(c, d, x, pointerType) ==
    IF pointerType = "touch" THEN d
    ELSE [cancelAnimation([d EXCEPT !.isDown = TRUE], FALSE) EXCEPT
            !.velocity = 0,
            !.scrollLeftStart = x,
            !.startedAtLeftEdge = (x <= 20),
            !.startedAtRightEdge = (x >= MaxScroll(c) - 5)]

\* onPointerUp; late: more than 80 ms after the last move
onPointerUp(c, d, x, late) ==
    IF ~d.isDown THEN d
    ELSE endDrag(c, [d EXCEPT !.velocity = IF late THEN 0 ELSE @], x)

\* the damped pull of the transform, in hundredths of a px
dampedPull(overshoot) ==
    isqrt(100 * MAX_PULL_DISTANCE
          * Min(Abs(overshoot) * PULL_RESISTANCE_PCT, 100 * MAX_PULL_DISTANCE))

canPullLeft(c, d, x, intendedScroll) ==
    /\ ~c.infinite /\ ~d.isBouncing /\ d.startedAtLeftEdge
    /\ x <= 20 /\ intendedScroll < 0

canPullRight(c, d, x, intendedScroll) ==
    /\ ~c.infinite /\ ~d.hasNextPage /\ ~d.isBouncing /\ d.startedAtRightEdge
    /\ x >= MaxScroll(c) - 5 /\ intendedScroll > MaxScroll(c)

\* onPointerMove with the pointer walk away from the press and the smoothed
\* velocity v: the hook and the offset after it
onPointerMove(c, d, x, walk, v) ==
    IF ~d.isDown THEN [d |-> d, x |-> x]
    ELSE LET intendedScroll == d.scrollLeftStart - walk
             d1 == [d EXCEPT !.velocity = v]
             dragging == IF d.rendered THEN d.isDragging ELSE TRUE
         IN  IF canPullLeft(c, d, x, intendedScroll)
             THEN [d |-> [d1 EXCEPT !.isPullingEdge = TRUE,
                                    !.currentPullOffset = dampedPull(intendedScroll),
                                    !.transform = translateX(dampedPull(intendedScroll)),
                                    !.isDragging = dragging],
                   x |-> x]
             ELSE IF canPullRight(c, d, x, intendedScroll)
             THEN [d |-> [d1 EXCEPT
                            !.isPullingEdge = TRUE,
                            !.currentPullOffset =
                                0 - dampedPull(intendedScroll - MaxScroll(c)),
                            !.transform =
                                translateX(0 - dampedPull(intendedScroll - MaxScroll(c))),
                            !.isDragging = dragging],
                   x |-> x]
             ELSE LET d2 == IF d1.isPullingEdge
                            THEN [d1 EXCEPT !.transform = NoTransform,
                                            !.currentPullOffset = 0,
                                            !.isPullingEdge = FALSE]
                            ELSE d1
                  IN  IF Abs(walk) > 10
                      THEN [d |-> [d2 EXCEPT !.isDragging = dragging],
                            x |-> Clamp(c, intendedScroll)]
                      ELSE [d |-> d2, x |-> x]

\* handleWindowPointerUp that leaves a release outside the element alone
handleWindowPointerUpIgnores(c, d, x, outside) == d

\* window pointerup: the safety net for a release outside the element
handleWindowPointerUp(c, d, x, outside) ==
    IF d.isDown /\ outside THEN endDrag(c, d, x) ELSE d

\* one frame callback of the requested animation; final: the duration is over
animationFrame(c, d, x, final) ==
    IF d.anim.kind = "snapBack"
    THEN IF final
         THEN [d |-> [d EXCEPT !.transform = NoTransform, !.anim = NoAnim], x |-> x]
         ELSE [d |-> [d EXCEPT !.transform = IF Abs(d.anim.from) \div 8 > 50
                                             THEN translateX(d.anim.from \div 8)
                                             ELSE NoTransform,
                               !.anim.frames = 1],
               x |-> x]
    ELSE IF d.anim.kind = "snap"
    THEN IF final
         THEN [d |-> [d EXCEPT !.anim = NoAnim], x |-> Clamp(c, d.anim.to)]
         ELSE [d |-> [d EXCEPT !.anim.frames = 1],
               x |-> Clamp(c, d.anim.from + ((d.anim.to - d.anim.from) * 7) \div 8)]
    ELSE IF d.anim.kind = "bounce"
    THEN IF final
         THEN [d |-> [d EXCEPT !.transform = NoTransform, !.anim = NoAnim,
                               !.isBouncing = FALSE],
               x |-> x]
         ELSE [d |-> [d EXCEPT !.transform = translateX(100 * BOUNCE_DISTANCE * d.anim.dir),
                               !.anim.frames = 1],
               x |-> x]
    ELSE IF d.anim.kind = "momentum"
    THEN LET currentVel == friction(d.anim.vel)
             newScroll == Clamp(c, x - currentVel)
             hitLeft == currentVel > 0 /\ newScroll <= 0 /\ x > 0
             hitRight == currentVel < 0 /\ newScroll >= MaxScroll(c) /\ x < MaxScroll(c)
             stopped == [d EXCEPT !.anim = NoAnim]
         IN  [x |-> newScroll,
              d |-> IF hitLeft
                    THEN (IF ~c.infinite THEN triggerBounce(c, stopped, "left") ELSE stopped)
                    ELSE IF hitRight
                    THEN (IF ~c.infinite /\ ~d.hasNextPage
                          THEN triggerBounce(c, stopped, "right") ELSE stopped)
                    ELSE IF Abs(currentVel) < SNAP_THRESHOLD
                    THEN snapToPosition(stopped, newScroll,
                                        findNearestSnapPoint(c, newScroll, d.anim.dir))
                    ELSE [d EXCEPT !.anim.vel = currentVel]]
    ELSE [d |-> d, x |-> x]

\* ------------------------------------------------------------------------
\* State
\* ------------------------------------------------------------------------
VARIABLES
    cfg,                 \* props and environment: infinite, itemsCount, supportsScrollEnd, paddingOffset, pointerTypes
    hasInitialized,      \* Carousel.tsx hasInitialized ref
    ctx,                 \* coordinator contextRef.current
    scrollLeft,          \* el.scrollLeft
    smooth,              \* target of the smooth scroll in flight, or NULL
    navRaf,              \* target of the requested (next frame) smooth scroll, or NULL
    scrollEvt,           \* a scroll event is queued
    moved,               \* the position changed since the last scrollend event
    isTouchInteraction,  \* teleport hook: last pointer-down was a touch
    rafId,               \* teleport hook: animation frame of handleScroll pending
    preTimers,           \* number of armed guard-clear timers of preTeleport
    watch,               \* completion watchers: "nav" (arrows) and "click" (item clicks)
    grace,               \* less than 400ms since the last arrow click
    bounceTimers,        \* number of armed bounce-end timers
    userActions,         \* arrow clicks, item clicks and scroll movements made so far
    intr,                \* the last handler was a user interrupt during a programmatic scroll
    obs,                 \* performTeleport call made by the last handler
    preObs,              \* handleScrollNav branch and preTeleport call of the last handler
    tpChain,             \* performTeleport rewrites since the last other offset change
    guard,               \* offset shift by teleports during the current pre-teleport guard
    rapid,               \* the run of same-direction arrow navigations issued before one settled, and the watcher of the latest navigation
    navDone,             \* onAnimationComplete call made by the last handler
    dispatch,            \* reducer study: the last reduce(before, action) = after
    teleportFrames,      \* teleport hook: animation-frame callbacks of handleScroll queued
    allItems,            \* Carousel.tsx allItems: clones before, items, clones after
    drag,                \* useDraggableScroll: refs, dragging state, transform, animation
    layout,              \* useCarouselLayout: the ResizeObserver effect and its debounce
    reach,               \* useDraggableScroll: the end-reached scroll effect
    activeItem,          \* Carousel.tsx active-item effect: refs and the last onActiveItemChange call
    hook,                \* useCarouselTeleport on degenerate options: options, offset, writes, dispatches
    visuals              \* useCarouselVisuals: the styles written by the last applyVisuals call

vars == <<cfg, hasInitialized, ctx, scrollLeft, smooth, navRaf, scrollEvt, moved,
          isTouchInteraction, rafId, preTimers, watch, grace, bounceTimers, userActions,
          intr, obs, preObs, tpChain, guard, rapid, navDone, dispatch,
          teleportFrames, allItems, drag, layout, reach, activeItem, hook, visuals>>

\* the state of the parts studied on their own
studyVars == <<allItems, drag, layout, reach, activeItem, hook, visuals>>

\* the studies of the active-item callback, degenerate options and visuals
callbackVars == <<activeItem, hook, visuals>>

Watchers == {"nav", "click"}

NoIntr == [kind |-> "none", phase |-> "IDLE", grace |-> FALSE]
NoObs == [src |-> "none", from |-> NULL, to |-> NULL, did |-> FALSE, blocked |-> FALSE,
          wasTeleporting |-> FALSE, wasPre |-> FALSE, pending |-> NULL, touch |-> FALSE,
          phase |-> "IDLE", kept |-> TRUE]
NoPre == [called |-> FALSE, target |-> NULL, ret |-> NULL, from |-> NULL, to |-> NULL,
          did |-> FALSE, wasTeleporting |-> FALSE, phase |-> "IDLE", same |-> TRUE,
          pendingAfter |-> NULL, nav |-> "none"]
NoFrames == [pending |-> 0, coalesced |-> FALSE]
NoChain == [count |-> 0, firstFrom |-> NULL]
NoGuard == [active |-> FALSE, shift |-> 0, ticked |-> FALSE]
NoRapid == [n |-> 0, dir |-> 0, base |-> NULL, pending |-> NULL, prev |-> NULL,
            jumpedTo |-> NULL, owner |-> "none"]
NoNavDone == [called |-> FALSE, source |-> "none", pos |-> NULL, pending |-> NULL,
              wasPre |-> FALSE, phase |-> "IDLE", phaseAfter |-> "IDLE",
              pendingAfter |-> NULL, same |-> TRUE,
              clearedBy |-> "none", stale |-> FALSE, owner |-> "none"]
NoDispatch == [applied |-> FALSE, before |-> createInitialContext,
               action |-> A_INITIALIZE, after |-> createInitialContext]

\* a user interrupt that found a programmatic scroll in flight
IntrOf(kind, context, g) ==
    IF context.pendingTarget # NULL
    THEN [kind |-> kind, phase |-> context.phase, grace |-> g]
    ELSE NoIntr

\* observation of one performTeleport call
ObsOf(r, context, x, source, touch) ==
    [src |-> source, from |-> x, to |-> r.scrollLeft, did |-> r.did, blocked |-> r.blocked,
     wasTeleporting |-> context.isTeleporting, wasPre |-> context.isPreTeleporting,
     pending |-> context.pendingTarget, touch |-> touch,
     phase |-> context.phase,
     kept |-> /\ r.ctx.phase = context.phase
              /\ r.ctx.pendingTarget = context.pendingTarget
              /\ r.ctx.scrollDirection = context.scrollDirection]

\* observation of one preTeleport call
PreOf(r, context, x, target) ==
    [called |-> TRUE, target |-> target, ret |-> r.ret, from |-> x, to |-> r.scrollLeft,
     did |-> r.did, wasTeleporting |-> context.isTeleporting, phase |-> context.phase,
     same |-> (r.ctx = context), pendingAfter |-> r.ctx.pendingTarget, nav |-> "scroll"]

ChainAfterTeleport(ch, r, x) ==
    IF r.did
    THEN [count |-> Min(ch.count + 1, 2),
          firstFrom |-> IF ch.count = 0 THEN x ELSE ch.firstFrom]
    ELSE ch

ChainAfterWrite(ch, x, x2) == IF x2 # x THEN NoChain ELSE ch

\* guard window bookkeeping: a reactive (scroll tick) rewrite adds to the shift
GuardAfterReactive(g, r, x) ==
    IF g.active
    THEN [g EXCEPT !.shift = g.shift + (r.scrollLeft - x), !.ticked = TRUE]
    ELSE g

\* observation of one onAnimationComplete call
NavDoneOf(context, currentPos, source) ==
    LET after == onAnimationComplete(context, currentPos, source)
    IN  [called |-> TRUE, source |-> source, pos |-> currentPos,
         pending |-> context.pendingTarget, wasPre |-> context.isPreTeleporting,
         phase |-> context.phase, phaseAfter |-> after.phase,
         pendingAfter |-> after.pendingTarget, same |-> (after = context),
         clearedBy |-> "none", stale |-> FALSE, owner |-> "none"]

\* the run of arrow navigations after one more handleScrollNav call that got
\* past the bounce checks: found at offset x with context, it jumped to x1
\* and left contextAfter; base is the slot the first call started from
RapidAfterNav(rp, initialized, context, contextAfter, base, x1, direction) ==
    IF ~initialized THEN [NoRapid EXCEPT !.owner = "nav"]
    ELSE IF context.pendingTarget = NULL
    THEN [n |-> 1, dir |-> direction, base |-> base,
          pending |-> contextAfter.pendingTarget, prev |-> NULL, jumpedTo |-> NULL,
          owner |-> "nav"]
    ELSE IF rp.n > 0 /\ rp.dir = direction
    THEN [n |-> rp.n + 1, dir |-> direction, base |-> rp.base,
          pending |-> contextAfter.pendingTarget, prev |-> context.pendingTarget,
          jumpedTo |-> x1, owner |-> "nav"]
    ELSE [NoRapid EXCEPT !.owner = "nav"]

\* the completion calls of one handler: which watcher's signal made
\* SCROLL_COMPLETE take effect, whether that signal was the debounce timer of
\* a replaced listener, and the watcher armed by the latest navigation
Completed(nd, by, isStale, rp) ==
    [nd EXCEPT !.clearedBy = by, !.stale = isStale, !.owner = rp.owner]

\* offsets the user can bring the viewport to (drag, wheel, touch, momentum)
UserOffsets(c) ==
    IF c.infinite
    THEN { bufferBeforeWidth(c) - originalSetWidth(c) - Stride,
           bufferBeforeWidth(c),
           bufferBeforeWidth(c) + originalSetWidth(c),
           bufferBeforeWidth(c) + 2 * originalSetWidth(c) + StrideHalf,
           MaxScroll(c) - Stride }
    ELSE { 0, Clamp(c, StrideHalf), MaxScroll(c) }

\* carousels under study: infinite with and without native scrollend, with a
\* container as wide as a card (padding 0) or half a stride wider on each
\* side, and a finite one
Configs ==
    { [infinite |-> TRUE, itemsCount |-> 1, supportsScrollEnd |-> TRUE,
       paddingOffset |-> 0, pointerTypes |-> {"mouse"}],
      [infinite |-> TRUE, itemsCount |-> MaxItems, supportsScrollEnd |-> TRUE,
       paddingOffset |-> StrideHalf, pointerTypes |-> {"mouse", "touch"}],
      [infinite |-> TRUE, itemsCount |-> MaxItems, supportsScrollEnd |-> FALSE,
       paddingOffset |-> 0, pointerTypes |-> {"mouse"}],
      [infinite |-> FALSE, itemsCount |-> MaxItems, supportsScrollEnd |-> TRUE,
       paddingOffset |-> 0, pointerTypes |-> {"mouse"}] }

Init ==
    /\ cfg \in Configs
    /\ hasInitialized = FALSE
    /\ ctx = createInitialContext
    /\ scrollLeft = 0
    /\ smooth = NULL
    /\ navRaf = NULL
    /\ scrollEvt = FALSE
    /\ moved = FALSE
    /\ isTouchInteraction = FALSE
    /\ rafId = FALSE
    /\ preTimers = 0
    /\ watch = [w \in Watchers |-> NoWatcher]
    /\ grace = FALSE
    /\ bounceTimers = 0
    /\ userActions = 0
    /\ intr = NoIntr
    /\ obs = NoObs
    /\ preObs = NoPre
    /\ tpChain = NoChain
    /\ guard = NoGuard
    /\ rapid = NoRapid
    /\ navDone = NoNavDone
    /\ dispatch = NoDispatch
    /\ teleportFrames = NoFrames
    /\ allItems = buildAllItems(cfg)
    /\ drag = createDrag
    /\ layout = createLayout
    /\ reach = createReach
    /\ activeItem = createActive
    /\ hook = createHook
    /\ visuals = createVisuals

\* the browser serves queued scroll events and requested animation frames
\* within the frame, before the next input event or timer
FramePending == scrollEvt \/ teleportFrames.pending > 0 \/ navRaf # NULL

\* an instant write of the offset: cancels the smooth scroll, queues a scroll
\* event and owes a scrollend when the position changed
InstantWrite(x2) ==
    /\ scrollLeft' = x2
    /\ smooth' = NULL
    /\ scrollEvt' = (scrollEvt \/ x2 # scrollLeft)
    /\ moved' = (moved \/ x2 # scrollLeft)

\* bookkeeping of a step that is neither an interrupt nor a teleport call
Quiet ==
    /\ intr' = NoIntr
    /\ obs' = NoObs
    /\ preObs' = NoPre
    /\ navDone' = NoNavDone

\* Carousel.tsx onScrollToItemComplete
onScrollToItemComplete(context, source) ==
    IF context.pendingTarget = NULL /\ source # "safety-timeout" THEN context
    ELSE IF context.isPreTeleporting THEN context
    ELSE reduce(context, A_SCROLL_COMPLETE)

\* the onComplete callback of a watcher
onComplete(w, context, currentPos, source) ==
    IF w = "nav" THEN onAnimationComplete(context, currentPos, source)
                 ELSE onScrollToItemComplete(context, source)

\* scrollToThisItem: scroll position of the card next to the centred one
itemTarget(c, currentScroll, d) == (RoundDiv(currentScroll, Stride) + d) * Stride

\* ------------------------------------------------------------------------
\* Carousel.tsx initializeCarousel, first successful run
\* ------------------------------------------------------------------------
InitializeCarousel ==
    /\ ~hasInitialized
    /\ ~FramePending
    /\ hasInitialized' = TRUE
    /\ InstantWrite(Clamp(cfg, bufferBeforeCount(cfg) * Stride))
    /\ ctx' = reduce(ctx, A_INITIALIZE)
    /\ Quiet
    /\ tpChain' = ChainAfterWrite(tpChain, scrollLeft, scrollLeft')
    /\ UNCHANGED <<cfg, navRaf, isTouchInteraction, rafId, preTimers, watch, grace,
                   bounceTimers, guard, userActions, rapid, dispatch,
                   teleportFrames, studyVars>>

\* ------------------------------------------------------------------------
\* Carousel.tsx handleArrowClick -> useCarouselNavigation handleScrollNav
\* ------------------------------------------------------------------------
ArrowClick(direction) ==
    /\ ~FramePending
    /\ userActions < MaxUserActions
    /\ userActions' = userActions + 1
    /\ grace' = TRUE
    /\ intr' = NoIntr
    /\ obs' = NoObs
    /\ navDone' = NoNavDone
    /\ IF ctx.phase = "BOUNCING"
       THEN \* ignore clicks while bouncing
            /\ preObs' = [NoPre EXCEPT !.nav = "ignored"]
            /\ UNCHANGED <<cfg, hasInitialized, ctx, scrollLeft, smooth, navRaf,
                           scrollEvt, moved, isTouchInteraction, rafId, preTimers, watch,
                           bounceTimers, tpChain, guard,
                           rapid, dispatch,
                   teleportFrames, studyVars>>
       ELSE IF atEdge(cfg, scrollLeft, direction)
       THEN \* edge bounce: START_BOUNCE, transform, two timers
            /\ bounceTimers' = bounceTimers + 1
            /\ ctx' = reduce(ctx, A_START_BOUNCE)
            /\ preObs' = [NoPre EXCEPT !.nav = "bounce"]
            /\ UNCHANGED <<cfg, hasInitialized, scrollLeft, smooth, navRaf, scrollEvt,
                           moved, isTouchInteraction, rafId, preTimers, watch, tpChain,
                           guard, rapid, dispatch,
                   teleportFrames, studyVars>>
       ELSE LET caught == ctx.pendingTarget # NULL
                \* catch-up: instant scrollTo(previousTarget)
                x1 == IF caught THEN Clamp(cfg, ctx.pendingTarget) ELSE scrollLeft
                target == IF caught
                          THEN ctx.pendingTarget + direction * Stride
                          ELSE idleTarget(cfg, scrollLeft, direction)
                pre == preTeleport(cfg, ctx, x1, target)
            IN  /\ ctx' = reduce(pre.ctx, A_ARROW_CLICK(direction, pre.ret))
                /\ scrollLeft' = pre.scrollLeft
                /\ smooth' = IF caught \/ pre.did THEN NULL ELSE smooth
                /\ scrollEvt' = (scrollEvt \/ pre.scrollLeft # scrollLeft)
                /\ moved' = (moved \/ pre.scrollLeft # scrollLeft)
                /\ navRaf' = pre.ret
                /\ watch' = [watch EXCEPT !.nav = waitForScrollCompletion(cfg, @)]
                /\ preTimers' = IF pre.did THEN preTimers + 1 ELSE preTimers
                /\ preObs' = IF cfg.infinite THEN PreOf(pre, ctx, x1, target)
                                               ELSE [NoPre EXCEPT !.nav = "scroll"]
                /\ tpChain' = ChainAfterWrite(tpChain, scrollLeft, pre.scrollLeft)
                /\ guard' = IF pre.did
                            THEN [active |-> TRUE, shift |-> pre.scrollLeft - x1,
                                  ticked |-> FALSE]
                            ELSE guard
                /\ rapid' = RapidAfterNav(rapid, hasInitialized, ctx, ctx',
                                          target - direction * Stride, x1, direction)
                /\ UNCHANGED <<cfg, hasInitialized, isTouchInteraction, rafId,
                               bounceTimers, dispatch,
                   teleportFrames, studyVars>>

\* the animation frame requested by handleScrollNav: el.scrollTo(target, smooth)
NavRaf ==
    /\ navRaf # NULL
    /\ ~scrollEvt
    /\ navRaf' = NULL
    /\ smooth' = IF Clamp(cfg, navRaf) = scrollLeft THEN NULL ELSE Clamp(cfg, navRaf)
    /\ Quiet
    /\ UNCHANGED <<cfg, hasInitialized, ctx, scrollLeft, scrollEvt, moved,
                   isTouchInteraction, rafId, preTimers, watch, grace, bounceTimers,
                   tpChain, guard, userActions, rapid, dispatch,
                   teleportFrames, studyVars>>

\* ------------------------------------------------------------------------
\* Carousel.tsx scrollToThisItem, for a card next to the centred one
\* ------------------------------------------------------------------------
ItemClick(d) ==
    /\ hasInitialized
    /\ ~FramePending
    /\ userActions < MaxUserActions
    /\ userActions' = userActions + 1
    /\ itemTarget(cfg, scrollLeft, d) >= 0
    /\ itemTarget(cfg, scrollLeft, d) <= (TotalItems(cfg) - 1) * Stride
    /\ ctx' = reduce(ctx, A_ITEM_CLICK(itemTarget(cfg, scrollLeft, d)))
    /\ smooth' = IF Clamp(cfg, itemTarget(cfg, scrollLeft, d)) = scrollLeft
                 THEN NULL
                 ELSE Clamp(cfg, itemTarget(cfg, scrollLeft, d))
    /\ watch' = [watch EXCEPT !.click = waitForScrollCompletion(cfg, @)]
    /\ Quiet
    /\ rapid' = [NoRapid EXCEPT !.owner = "click"]
    /\ UNCHANGED <<cfg, hasInitialized, scrollLeft, navRaf, scrollEvt, moved,
                   isTouchInteraction, rafId, preTimers, grace, bounceTimers, tpChain,
                   guard, dispatch,
                   teleportFrames, studyVars>>

\* ------------------------------------------------------------------------
\* Viewport: the smooth scroll animation
\* ------------------------------------------------------------------------
SmoothProgress ==
    /\ smooth # NULL
    /\ ~scrollEvt
    /\ navRaf = NULL
    /\ Abs(smooth - scrollLeft) > StrideHalf
    /\ scrollLeft' = IF smooth > scrollLeft THEN scrollLeft + StrideHalf
                                             ELSE scrollLeft - StrideHalf
    /\ scrollEvt' = TRUE
    /\ moved' = TRUE
    /\ Quiet
    /\ tpChain' = NoChain
    /\ UNCHANGED <<cfg, hasInitialized, ctx, smooth, navRaf, isTouchInteraction, rafId,
                   preTimers, watch, grace, bounceTimers, guard, userActions,
                   rapid, dispatch,
                   teleportFrames, studyVars>>

SmoothArrive ==
    /\ smooth # NULL
    /\ ~scrollEvt
    /\ navRaf = NULL
    /\ Abs(smooth - scrollLeft) <= StrideHalf
    /\ scrollLeft' = smooth
    /\ smooth' = NULL
    /\ scrollEvt' = TRUE
    /\ moved' = TRUE
    /\ Quiet
    /\ tpChain' = NoChain
    /\ UNCHANGED <<cfg, hasInitialized, ctx, navRaf, isTouchInteraction, rafId,
                   preTimers, watch, grace, bounceTimers, guard, userActions,
                   rapid, dispatch,
                   teleportFrames, studyVars>>

\* ------------------------------------------------------------------------
\* scroll event: handleScroll of the teleport hook (requests one frame) and
\* the debounce listeners of the completion watchers (re-arm their timers)
\* ------------------------------------------------------------------------
DeliverScroll ==
    /\ scrollEvt
    /\ scrollEvt' = FALSE
    /\ rafId' = IF cfg.infinite THEN handleScroll(rafId, teleportFrames.pending).rafId
                                ELSE rafId
    /\ teleportFrames' =
          IF cfg.infinite
          THEN [pending |-> handleScroll(rafId, teleportFrames.pending).pending,
                coalesced |-> teleportFrames.pending > 0]
          ELSE teleportFrames
    /\ watch' = [w \in Watchers |->
                    IF watch[w].listener /\ ~cfg.supportsScrollEnd
                    THEN [watch[w] EXCEPT !.debounce = TRUE]
                    ELSE watch[w]]
    /\ Quiet
    /\ UNCHANGED <<cfg, hasInitialized, ctx, scrollLeft, smooth, navRaf, moved,
                   isTouchInteraction, preTimers, grace, bounceTimers, tpChain, guard,
                   userActions, rapid, dispatch, studyVars>>

\* the animation-frame callback of handleScroll: the reactive teleport check
TeleportRaf ==
    /\ teleportFrames.pending > 0
    /\ ~scrollEvt
    /\ navRaf = NULL
    /\ rafId' = FALSE
    /\ teleportFrames' = [pending |-> teleportFrames.pending - 1, coalesced |-> FALSE]
    /\ intr' = NoIntr
    /\ preObs' = NoPre
    /\ LET r == IF handleScrollEvaluates(ctx, isTouchInteraction)
                THEN performTeleport(cfg, ctx, scrollLeft, "scroll")
                ELSE [ctx |-> ctx, scrollLeft |-> scrollLeft, did |-> FALSE, blocked |-> TRUE]
       IN  /\ ctx' = r.ctx
           /\ IF r.did THEN InstantWrite(r.scrollLeft)
                       ELSE UNCHANGED <<scrollLeft, smooth, scrollEvt, moved>>
           /\ obs' = ObsOf(r, ctx, scrollLeft, "scroll", isTouchInteraction)
           /\ tpChain' = ChainAfterTeleport(tpChain, r, scrollLeft)
           /\ guard' = GuardAfterReactive(guard, r, scrollLeft)
    /\ navDone' = NoNavDone
    /\ UNCHANGED <<cfg, hasInitialized, navRaf, isTouchInteraction, preTimers, watch,
                   grace, bounceTimers, userActions, rapid, dispatch, studyVars>>

\* ------------------------------------------------------------------------
\* scrollend event: handleScrollEnd of the teleport hook (deferred teleport
\* in touch mode), then the once-listeners of the completion watchers in the
\* order they were added
\* ------------------------------------------------------------------------
ScrollEnd ==
    /\ cfg.supportsScrollEnd
    /\ ~FramePending
    /\ moved
    /\ smooth = NULL
    /\ intr' = NoIntr
    /\ preObs' = NoPre
    /\ LET evaluates == cfg.infinite
                        /\ handleScrollEndEvaluates(cfg, ctx, isTouchInteraction, scrollLeft)
           r == IF evaluates
                THEN performTeleport(cfg, ctx, scrollLeft, "scrollend")
                ELSE [ctx |-> ctx, scrollLeft |-> scrollLeft, did |-> FALSE, blocked |-> FALSE]
           \* listeners run in the order they were added: the watcher of the
           \* latest navigation added its listener last
           first == IF rapid.owner = "nav" THEN "click" ELSE "nav"
           second == IF first = "nav" THEN "click" ELSE "nav"
           c1 == IF watch[first].listener
                 THEN onComplete(first, r.ctx, r.scrollLeft, "scrollend")
                 ELSE r.ctx
           c2 == IF watch[second].listener
                 THEN onComplete(second, c1, r.scrollLeft, "scrollend")
                 ELSE c1
           navSees == IF first = "nav" THEN r.ctx ELSE c1
       IN  /\ obs' = IF evaluates
                     THEN ObsOf(r, ctx, scrollLeft, "scrollend", isTouchInteraction)
                     ELSE NoObs
           /\ scrollLeft' = r.scrollLeft
           /\ smooth' = NULL
           /\ scrollEvt' = r.did
           /\ moved' = r.did
           /\ tpChain' = ChainAfterTeleport(tpChain, r, scrollLeft)
           /\ ctx' = c2
           /\ watch' = [w \in Watchers |-> [watch[w] EXCEPT !.listener = FALSE]]
           /\ navDone' =
                Completed(IF watch.nav.listener
                          THEN NavDoneOf(navSees, r.scrollLeft, "scrollend")
                          ELSE NoNavDone,
                          IF c1 # r.ctx THEN first
                          ELSE IF c2 # c1 THEN second ELSE "none",
                          FALSE, rapid)
    /\ UNCHANGED <<cfg, hasInitialized, navRaf, isTouchInteraction, rafId, preTimers,
                   grace, bounceTimers, guard, userActions, rapid, dispatch,
                   teleportFrames, studyVars>>

\* ------------------------------------------------------------------------
\* pointerdown: handlePointerDown of the teleport hook (native listener),
\* then the onPointerDown prop of Carousel.tsx
\* ------------------------------------------------------------------------
PointerDown(pointerType) ==
    /\ hasInitialized
    /\ ~FramePending
    /\ intr' = IntrOf("pointerdown", ctx, grace)
    /\ preObs' = NoPre
    /\ isTouchInteraction' = IF cfg.infinite THEN (pointerType = "touch")
                                             ELSE isTouchInteraction
    /\ LET evaluates == cfg.infinite /\ pointerType = "touch"
                        /\ dangerouslyClose(cfg, scrollLeft)
           r == IF evaluates
                THEN performTeleport(cfg, ctx, scrollLeft, "pointerdown")
                ELSE [ctx |-> ctx, scrollLeft |-> scrollLeft, did |-> FALSE, blocked |-> FALSE]
       IN  /\ obs' = IF evaluates
                     THEN ObsOf(r, ctx, scrollLeft, "pointerdown", TRUE)
                     ELSE NoObs
           /\ scrollLeft' = r.scrollLeft
           \* a finger on the viewport stops a scroll animation
           /\ smooth' = IF pointerType = "touch" \/ r.did THEN NULL ELSE smooth
           /\ scrollEvt' = r.did
           /\ moved' = (moved \/ r.did)
           /\ tpChain' = ChainAfterTeleport(tpChain, r, scrollLeft)
           /\ ctx' = IF grace THEN r.ctx
                     ELSE IF r.ctx.pendingTarget # NULL
                     THEN reduce(r.ctx, A_USER_INTERRUPT)
                     ELSE r.ctx
    /\ watch' = IF grace THEN watch ELSE [watch EXCEPT !.click.safety = clearActiveTimeout(@)]
    /\ navDone' = NoNavDone
    /\ UNCHANGED <<cfg, hasInitialized, navRaf, rafId, preTimers, grace, bounceTimers,
                   guard, userActions, rapid, dispatch,
                   teleportFrames, studyVars>>

\* onWheel prop of Carousel.tsx; the wheel takes over the scroll position
Wheel ==
    /\ hasInitialized
    /\ ~FramePending
    /\ intr' = IntrOf("wheel", ctx, grace)
    /\ obs' = NoObs
    /\ preObs' = NoPre
    /\ ctx' = IF ctx.pendingTarget # NULL THEN reduce(ctx, A_USER_INTERRUPT) ELSE ctx
    /\ smooth' = NULL
    /\ watch' = [watch EXCEPT !.click.safety = clearActiveTimeout(@)]
    /\ navDone' = NoNavDone
    /\ UNCHANGED <<cfg, hasInitialized, scrollLeft, navRaf, scrollEvt, moved,
                   isTouchInteraction, rafId, preTimers, grace, bounceTimers, tpChain,
                   guard, userActions, rapid, dispatch,
                   teleportFrames, studyVars>>

\* onTouchStart prop of Carousel.tsx: no coordinator transition
TouchStart ==
    /\ hasInitialized
    /\ ~FramePending
    /\ intr' = IntrOf("touchstart", ctx, grace)
    /\ obs' = NoObs
    /\ preObs' = NoPre
    /\ watch' = [watch EXCEPT !.click.safety = clearActiveTimeout(@)]
    /\ navDone' = NoNavDone
    /\ UNCHANGED <<cfg, hasInitialized, ctx, scrollLeft, smooth, navRaf, scrollEvt,
                   moved, isTouchInteraction, rafId, preTimers, grace, bounceTimers,
                   tpChain, guard, userActions, rapid, dispatch,
                   teleportFrames, studyVars>>

\* the user moves the viewport (drag, wheel delta, native touch scroll, momentum)
UserScroll(x) ==
    /\ hasInitialized
    /\ ~FramePending
    /\ userActions < MaxUserActions
    /\ userActions' = userActions + 1
    /\ x # scrollLeft
    /\ scrollLeft' = x
    /\ smooth' = NULL
    /\ scrollEvt' = TRUE
    /\ moved' = TRUE
    /\ Quiet
    /\ tpChain' = NoChain
    /\ UNCHANGED <<cfg, hasInitialized, ctx, navRaf, isTouchInteraction, rafId,
                   preTimers, watch, grace, bounceTimers, guard, rapid, dispatch,
                   teleportFrames, studyVars>>

\* ------------------------------------------------------------------------
\* Timers
\* ------------------------------------------------------------------------
\* preTeleport: setTimeout(SET_PRE_TELEPORTING false, preTeleportClearDelayMs)
PreTeleportTimer ==
    /\ ~FramePending
    /\ preTimers > 0
    /\ preTimers' = preTimers - 1
    /\ ctx' = reduce(ctx, A_SET_PRE_TELEPORTING(FALSE))
    /\ guard' = NoGuard
    /\ Quiet
    /\ UNCHANGED <<cfg, hasInitialized, scrollLeft, smooth, navRaf, scrollEvt, moved,
                   isTouchInteraction, rafId, watch, grace, bounceTimers, tpChain,
                   userActions, rapid, dispatch,
                   teleportFrames, studyVars>>

\* 400ms have passed since the last arrow click
GraceExpires ==
    /\ ~FramePending
    /\ grace
    /\ grace' = FALSE
    /\ Quiet
    /\ UNCHANGED <<cfg, hasInitialized, ctx, scrollLeft, smooth, navRaf, scrollEvt,
                   moved, isTouchInteraction, rafId, preTimers, watch, bounceTimers,
                   tpChain, guard, userActions, rapid, dispatch,
                   teleportFrames, studyVars>>

\* handleScrollNav: bounce-end timer (BOUNCE_PHASE2_MS)
BounceTimer ==
    /\ ~FramePending
    /\ bounceTimers > 0
    /\ bounceTimers' = bounceTimers - 1
    /\ ctx' = reduce(ctx, A_END_BOUNCE)
    /\ Quiet
    /\ UNCHANGED <<cfg, hasInitialized, scrollLeft, smooth, navRaf, scrollEvt, moved,
                   isTouchInteraction, rafId, preTimers, watch, grace, tpChain, guard,
                   userActions, rapid, dispatch,
                   teleportFrames, studyVars>>

\* waitForScrollCompletion fallback: the debounce timer of the current
\* listener, or one left armed by a listener that was replaced (stale)
DebounceTimer(w, stale) ==
    /\ ~FramePending
    /\ IF stale THEN watch[w].stale > 0 ELSE watch[w].debounce
    /\ watch' = [watch EXCEPT ![w] =
                    IF stale
                    THEN [@ EXCEPT !.listener = FALSE, !.stale = @ - 1,
                             !.safety = clearActiveTimeout(@)]
                    ELSE [@ EXCEPT !.listener = FALSE, !.debounce = FALSE,
                                   !.safety = clearActiveTimeout(@)]]
    /\ ctx' = onComplete(w, ctx, scrollLeft, "debounce")
    /\ intr' = NoIntr
    /\ obs' = NoObs
    /\ preObs' = NoPre
    /\ navDone' = Completed(IF w = "nav" THEN NavDoneOf(ctx, scrollLeft, "debounce")
                                         ELSE NoNavDone,
                             IF ctx' # ctx THEN w ELSE "none", stale, rapid)
    /\ UNCHANGED <<cfg, hasInitialized, scrollLeft, smooth, navRaf, scrollEvt, moved,
                   isTouchInteraction, rafId, preTimers, grace, bounceTimers, tpChain,
                   guard, userActions, rapid, dispatch,
                   teleportFrames, studyVars>>

\* waitForScrollCompletion fallback: safety timeout
SafetyTimer(w) ==
    /\ ~FramePending
    /\ watch[w].safety > 0
    /\ watch' = [watch EXCEPT ![w] = [@ EXCEPT !.listener = FALSE, !.safety = @ - 1]]
    /\ ctx' = onComplete(w, ctx, scrollLeft, "safety-timeout")
    /\ intr' = NoIntr
    /\ obs' = NoObs
    /\ preObs' = NoPre
    /\ navDone' = Completed(IF w = "nav" THEN NavDoneOf(ctx, scrollLeft, "safety-timeout")
                                         ELSE NoNavDone,
                             IF ctx' # ctx THEN w ELSE "none", FALSE, rapid)
    /\ UNCHANGED <<cfg, hasInitialized, scrollLeft, smooth, navRaf, scrollEvt, moved,
                   isTouchInteraction, rafId, preTimers, grace, bounceTimers, tpChain,
                   guard, userActions, rapid, dispatch,
                   teleportFrames, studyVars>>

\* ------------------------------------------------------------------------
\* Specification
\* ------------------------------------------------------------------------
Next ==
    \/ InitializeCarousel
    \/ \E direction \in {-1, 1} : ArrowClick(direction)
    \/ NavRaf
    \/ \E d \in {-1, 1} : ItemClick(d)
    \/ SmoothProgress
    \/ SmoothArrive
    \/ DeliverScroll
    \/ TeleportRaf
    \/ ScrollEnd
    \/ \E pointerType \in cfg.pointerTypes : PointerDown(pointerType)
    \/ Wheel
    \/ TouchStart
    \/ \E x \in UserOffsets(cfg) : UserScroll(x)
    \/ PreTeleportTimer
    \/ GraceExpires
    \/ BounceTimer
    \/ \E w \in Watchers, stale \in BOOLEAN : DebounceTimer(w, stale)
    \/ \E w \in Watchers : SafetyTimer(w)

Spec == Init /\ [][Next]_vars

TypeOK ==
    /\ ctx.phase \in Phases
    /\ scrollLeft \in 0..MaxScroll(cfg)
    /\ preTimers \in 0..MaxUserActions

\* ------------------------------------------------------------------------
\* Reducer study: reduce applied to any context and any action
\* ------------------------------------------------------------------------
ReducerTargets == {0, Stride}

ReducerContexts ==
    [ phase : Phases,
      pendingTarget : {NULL} \cup ReducerTargets,
      scrollDirection : {-1, 0, 1},
      teleportOffset : {NULL, Stride},
      isTeleporting : BOOLEAN,
      isPreTeleporting : BOOLEAN,
      bounceTimeoutId : BOOLEAN,
      hasScrollEndListener : BOOLEAN ]

ReducerActions ==
    {A_INITIALIZE, A_SCROLL_COMPLETE, A_USER_INTERRUPT, A_START_BOUNCE, A_END_BOUNCE,
     A_START_PRE_TELEPORT, A_END_TELEPORT, A_START_DRAG, A_END_DRAG}
    \cup {A_ARROW_CLICK(d, t) : d \in {-1, 1}, t \in ReducerTargets}
    \cup {A_ITEM_CLICK(t) : t \in ReducerTargets}
    \cup {A_EXECUTE_TELEPORT(Stride)}
    \cup {A_SET_TELEPORTING(v) : v \in BOOLEAN}
    \cup {A_SET_PRE_TELEPORTING(v) : v \in BOOLEAN}
    \cup {A_SET_PENDING_TARGET(t) : t \in ReducerTargets}

ReducerInit ==
    /\ cfg \in {c \in Configs : ~c.infinite}
    /\ hasInitialized = FALSE
    /\ ctx \in ReducerContexts
    /\ scrollLeft = 0
    /\ smooth = NULL
    /\ navRaf = NULL
    /\ scrollEvt = FALSE
    /\ moved = FALSE
    /\ isTouchInteraction = FALSE
    /\ rafId = FALSE
    /\ preTimers = 0
    /\ watch = [w \in Watchers |-> NoWatcher]
    /\ grace = FALSE
    /\ bounceTimers = 0
    /\ userActions = 0
    /\ intr = NoIntr
    /\ obs = NoObs
    /\ preObs = NoPre
    /\ tpChain = NoChain
    /\ guard = NoGuard
    /\ rapid = NoRapid
    /\ navDone = NoNavDone
    /\ dispatch = NoDispatch
    /\ teleportFrames = NoFrames
    /\ allItems = buildAllItems(cfg)
    /\ drag = createDrag
    /\ layout = createLayout
    /\ reach = createReach
    /\ activeItem = createActive
    /\ hook = createHook
    /\ visuals = createVisuals

\* transition(action): contextRef.current = reduce(contextRef.current, action)
Dispatch(action) ==
    /\ ctx' = reduce(ctx, action)
    /\ dispatch' = [applied |-> TRUE, before |-> ctx, action |-> action,
                    after |-> reduce(ctx, action)]
    /\ UNCHANGED <<cfg, hasInitialized, scrollLeft, smooth, navRaf, scrollEvt, moved,
                   isTouchInteraction, rafId, preTimers, watch, grace, bounceTimers,
                   userActions, intr, obs, preObs, tpChain, guard, rapid, navDone,
                   teleportFrames, studyVars>>

ReducerNext == \E action \in ReducerActions : Dispatch(action)

ReducerSpec == ReducerInit /\ [][ReducerNext]_vars

\* ------------------------------------------------------------------------
\* Parts studied on their own.  Each has the carousel as constructed, with
\* the coordinator and the viewport machinery at rest.
\* ------------------------------------------------------------------------
coordinatorVars == <<hasInitialized, ctx, smooth, navRaf, scrollEvt, moved,
                     isTouchInteraction, rafId, preTimers, watch, grace, bounceTimers,
                     userActions, intr, obs, preObs, tpChain, guard, rapid, navDone,
                     dispatch, teleportFrames>>

CoordinatorAtRest ==
    /\ hasInitialized = FALSE
    /\ ctx = createInitialContext
    /\ smooth = NULL
    /\ navRaf = NULL
    /\ scrollEvt = FALSE
    /\ moved = FALSE
    /\ isTouchInteraction = FALSE
    /\ rafId = FALSE
    /\ preTimers = 0
    /\ watch = [w \in Watchers |-> NoWatcher]
    /\ grace = FALSE
    /\ bounceTimers = 0
    /\ userActions = 0
    /\ intr = NoIntr
    /\ obs = NoObs
    /\ preObs = NoPre
    /\ tpChain = NoChain
    /\ guard = NoGuard
    /\ rapid = NoRapid
    /\ navDone = NoNavDone
    /\ dispatch = NoDispatch
    /\ teleportFrames = NoFrames

\* ------------------------------------------------------------------------
\* Rendered sequence: any number of items, re-renders and offset changes
\* ------------------------------------------------------------------------
\* largest items prop
MaxCloneItems == 60

CloneConfigs ==
    [infinite : BOOLEAN, itemsCount : 1..MaxCloneItems, supportsScrollEnd : {TRUE},
     paddingOffset : {0}, pointerTypes : {{"mouse"}}]

\* offsets that scrolling, navigation and teleports bring the viewport to
CloneOffsets(c) ==
    {0, Clamp(c, bufferBeforeWidth(c)),
     Clamp(c, bufferBeforeWidth(c) + originalSetWidth(c)), MaxScroll(c)}

CloneInit ==
    /\ cfg \in CloneConfigs
    /\ scrollLeft = 0
    /\ allItems = buildAllItems(cfg)
    /\ drag = createDrag
    /\ layout = createLayout
    /\ reach = createReach
    /\ activeItem = createActive
    /\ hook = createHook
    /\ visuals = createVisuals
    /\ CoordinatorAtRest

\* a render: useMemo recomputes the clones when the items prop is a new array
CloneRender ==
    /\ allItems' = buildAllItems(cfg)
    /\ UNCHANGED <<cfg, scrollLeft, drag, layout, reach, coordinatorVars, callbackVars>>

\* the offset changes (scroll, navigation, teleport)
CloneScroll(x) ==
    /\ x # scrollLeft
    /\ scrollLeft' = x
    /\ UNCHANGED <<cfg, allItems, drag, layout, reach, coordinatorVars, callbackVars>>

CloneNext ==
    \/ CloneRender
    \/ \E x \in CloneOffsets(cfg) : CloneScroll(x)

CloneSpec == CloneInit /\ [][CloneNext]_vars

\* ------------------------------------------------------------------------
\* Resize-driven measurement: observations, clock ticks, the debounce timeout
\* ------------------------------------------------------------------------
LayoutInit ==
    /\ cfg \in Configs
    /\ scrollLeft = 0
    /\ allItems = buildAllItems(cfg)
    /\ drag = createDrag
    /\ layout = createLayout
    /\ reach = createReach
    /\ activeItem = createActive
    /\ hook = createHook
    /\ visuals = createVisuals
    /\ CoordinatorAtRest

\* the ResizeObserver reports the container, whose cards are w wide
LayoutObserve(w) ==
    /\ layout.observations < MaxObservations
    /\ LET l == [layout EXCEPT !.domWidth = w]
       IN  layout' = [onResize(l) EXCEPT
                        !.observations = @ + 1,
                        !.immediate = IF l.isFirstObservation THEN @ + 1 ELSE @,
                        !.bursts = IF ~l.isFirstObservation /\ l.timers = <<>>
                                   THEN @ + 1 ELSE @,
                        !.age = 0]
    /\ UNCHANGED <<cfg, scrollLeft, allItems, drag, reach, coordinatorVars, callbackVars>>

\* one clock tick passes; a timeout that is due runs first
LayoutTick ==
    /\ \A i \in 1..Len(layout.timers) : layout.timers[i] > 0
    /\ layout.timers # <<>> \/ layout.age < DebounceTicks
    /\ layout' = [layout EXCEPT
                    !.timers = [i \in 1..Len(layout.timers) |-> layout.timers[i] - 1],
                    !.age = Min(@ + 1, DebounceTicks)]
    /\ UNCHANGED <<cfg, scrollLeft, allItems, drag, reach, coordinatorVars, callbackVars>>

\* the debounce timeout runs: measureLayout
LayoutTimer ==
    /\ layout.timers # <<>>
    /\ Head(layout.timers) = 0
    /\ layout' = [layout EXCEPT !.timers = Tail(@), !.cardWidth = layout.domWidth,
                                !.delayed = @ + 1, !.firedAge = layout.age]
    /\ UNCHANGED <<cfg, scrollLeft, allItems, drag, reach, coordinatorVars, callbackVars>>

\* the effect runs again (containerRef or resizeDebounceMs changed): the
\* cleanup disconnects the observer and clears the timeout
LayoutRemount ==
    /\ layout.observations > 0
    /\ layout' = [createLayout EXCEPT !.domWidth = layout.domWidth,
                                      !.cardWidth = layout.cardWidth]
    /\ UNCHANGED <<cfg, scrollLeft, allItems, drag, reach, coordinatorVars, callbackVars>>

LayoutNext ==
    \/ \E w \in CardWidths : LayoutObserve(w)
    \/ LayoutTick
    \/ LayoutTimer
    \/ LayoutRemount

LayoutSpec == LayoutInit /\ [][LayoutNext]_vars

\* ------------------------------------------------------------------------
\* End-reached callback: scroll events, renders, clock ticks
\* ------------------------------------------------------------------------
\* offsets around the proximity threshold
ReachOffsets(c) ==
    {Clamp(c, MaxScroll(c) - 2 * clientWidth(c) - Stride),
     Clamp(c, MaxScroll(c) - 2 * clientWidth(c)),
     Clamp(c, MaxScroll(c) - Stride),
     MaxScroll(c)}

\* the page may be younger than the rate limit when the carousel mounts
ReachInit ==
    /\ cfg \in Configs
    /\ scrollLeft \in ReachOffsets(cfg)
    /\ allItems = buildAllItems(cfg)
    /\ drag = createDrag
    /\ layout = createLayout
    /\ reach \in {[createReach EXCEPT !.elapsed = e, !.hasNextPage = h] :
                     e \in 0..(RateLimitTicks + 1), h \in BOOLEAN}
    /\ activeItem = createActive
    /\ hook = createHook
    /\ visuals = createVisuals
    /\ CoordinatorAtRest

\* a scroll event at a new offset
ReachScroll(x) ==
    /\ x # scrollLeft
    /\ endReachedCheck(cfg, reach, x).calls <= MaxEndReached
    /\ scrollLeft' = x
    /\ reach' = endReachedCheck(cfg, reach, x)
    /\ UNCHANGED <<cfg, allItems, drag, layout, coordinatorVars, callbackVars>>

\* the carousel renders: handleEndReached is a new function, the effect runs
\* again and makes its initial check
ReachRender ==
    /\ endReachedCheck(cfg, reach, scrollLeft).calls <= MaxEndReached
    /\ reach' = endReachedCheck(cfg, reach, scrollLeft)
    /\ UNCHANGED <<cfg, scrollLeft, allItems, drag, layout, coordinatorVars, callbackVars>>

\* one clock tick passes
ReachTick ==
    /\ reach.elapsed <= RateLimitTicks
    /\ reach' = [reach EXCEPT !.elapsed = @ + 1,
                              !.last = [@ EXCEPT !.checked = FALSE]]
    /\ UNCHANGED <<cfg, scrollLeft, allItems, drag, layout, coordinatorVars, callbackVars>>

ReachNext ==
    \/ \E x \in ReachOffsets(cfg) : ReachScroll(x)
    \/ ReachRender
    \/ ReachTick

ReachSpec == ReachInit /\ [][ReachNext]_vars

\* ------------------------------------------------------------------------
\* Drag physics: pointer events, window events, timers, frames, renders
\* ------------------------------------------------------------------------
DragConfigs == {c \in Configs : c.supportsScrollEnd /\ c.paddingOffset = 0}

DragInit ==
    /\ cfg \in DragConfigs
    /\ scrollLeft \in {0, MaxScroll(cfg)}
    /\ allItems = buildAllItems(cfg)
    /\ drag \in {[createDrag EXCEPT !.hasNextPage = h] : h \in BOOLEAN}
    /\ layout = createLayout
    /\ reach = createReach
    /\ activeItem = createActive
    /\ hook = createHook
    /\ visuals = createVisuals
    /\ CoordinatorAtRest

\* the hook without the record of the gesture
dragCore(d) ==
    [d EXCEPT !.presses = 0, !.last = "none", !.wasDown = FALSE, !.same = TRUE,
              !.pull = NoPull]

\* the edge pull after a handler took the hook from d0 at offset x0 to d1
pullAfter(d0, x0, d1, handler) ==
    IF handler \in {"down", "cancel"}
    THEN (IF dragCore(d1) = dragCore(d0) THEN d0.pull ELSE NoPull)
    ELSE IF handler = "move"
    THEN (IF d1.isPullingEdge
          THEN (IF d0.pull.stage = "pulling" THEN d0.pull
                ELSE [stage |-> "pulling", at |-> x0])
          ELSE IF d0.isDown THEN NoPull ELSE d0.pull)
    ELSE IF handler \in {"up", "windowUp", "blur"}
    THEN (IF d0.isDown /\ ~d1.isDown /\ d0.isPullingEdge
          THEN [stage |-> IF d1.anim.kind = "none" THEN "finished" ELSE "released",
                at |-> d0.pull.at]
          ELSE d0.pull)
    ELSE IF handler = "frame"
    THEN (IF d0.pull.stage = "released" /\ d1.anim.kind = "none"
          THEN [d0.pull EXCEPT !.stage = "finished"]
          ELSE d0.pull)
    ELSE d0.pull

\* the record of the gesture after a handler
noted(d0, x0, d1, x1, handler) ==
    [d1 EXCEPT !.last = IF handler \in {"windowUp", "blur"} THEN handler ELSE "other",
               !.wasDown = d0.isDown,
               !.same = (x1 = x0 /\ dragCore(d1) = dragCore(d0)),
               !.pull = pullAfter(d0, x0, d1, handler)]

DragPointerDown(pointerType) ==
    /\ drag.presses < MaxPresses
    /\ drag' = [noted(drag, scrollLeft, onPointerDown(cfg, drag, scrollLeft, pointerType),
                      scrollLeft, "down") EXCEPT !.presses = @ + 1]
    /\ UNCHANGED <<cfg, scrollLeft, allItems, layout, reach, coordinatorVars, callbackVars>>

DragPointerMove(walk, v) ==
    /\ drag.isDown
    /\ LET r == onPointerMove(cfg, drag, scrollLeft, walk, v)
       IN  /\ drag' = noted(drag, scrollLeft, r.d, r.x, "move")
           /\ scrollLeft' = r.x
    /\ UNCHANGED <<cfg, allItems, layout, reach, coordinatorVars, callbackVars>>

DragPointerUp(late) ==
    /\ drag.isDown
    /\ drag' = noted(drag, scrollLeft, onPointerUp(cfg, drag, scrollLeft, late),
                     scrollLeft, "up")
    /\ UNCHANGED <<cfg, scrollLeft, allItems, layout, reach, coordinatorVars, callbackVars>>

\* a pointer is released somewhere in the window
DragWindowPointerUp(outside) ==
    /\ drag' = noted(drag, scrollLeft,
                     handleWindowPointerUp(cfg, drag, scrollLeft, outside),
                     scrollLeft, IF outside THEN "windowUp" ELSE "windowUpInside")
    /\ UNCHANGED <<cfg, scrollLeft, allItems, layout, reach, coordinatorVars, callbackVars>>

\* window blur: endDrag is the listener
DragWindowBlur ==
    /\ drag' = noted(drag, scrollLeft, endDrag(cfg, drag, scrollLeft), scrollLeft, "blur")
    /\ UNCHANGED <<cfg, scrollLeft, allItems, layout, reach, coordinatorVars, callbackVars>>

\* setTimeout(() => setIsDragging(false), 0)
DragClearTimer ==
    /\ drag.clearTimers > 0
    /\ drag' = noted(drag, scrollLeft,
                     [drag EXCEPT !.clearTimers = @ - 1, !.isDragging = FALSE],
                     scrollLeft, "timer")
    /\ UNCHANGED <<cfg, scrollLeft, allItems, layout, reach, coordinatorVars, callbackVars>>

\* React renders: the handlers are memoised again with the dragging state
DragRender ==
    /\ drag.rendered # drag.isDragging
    /\ drag' = noted(drag, scrollLeft, [drag EXCEPT !.rendered = drag.isDragging],
                     scrollLeft, "render")
    /\ UNCHANGED <<cfg, scrollLeft, allItems, layout, reach, coordinatorVars, callbackVars>>

\* the requested animation frame runs
DragFrame(final) ==
    /\ drag.anim.kind # "none"
    /\ final \/ (drag.anim.frames = 0 /\ drag.anim.kind # "momentum")
    /\ LET r == animationFrame(cfg, drag, scrollLeft, final)
       IN  /\ drag' = noted(drag, scrollLeft, r.d, r.x, "frame")
           /\ scrollLeft' = r.x
    /\ UNCHANGED <<cfg, allItems, layout, reach, coordinatorVars, callbackVars>>

\* cancelMomentum, called by the navigation controller
DragCancelMomentum ==
    /\ drag.anim.kind # "none" \/ drag.transform.set \/ drag.isPullingEdge
    /\ drag' = noted(drag, scrollLeft, cancelAnimation(drag, TRUE), scrollLeft, "cancel")
    /\ UNCHANGED <<cfg, scrollLeft, allItems, layout, reach, coordinatorVars, callbackVars>>

DragNext ==
    \/ \E pointerType \in {"mouse", "touch"} : DragPointerDown(pointerType)
    \/ \E walk \in Walks, v \in Velocities : DragPointerMove(walk, v)
    \/ \E late \in BOOLEAN : DragPointerUp(late)
    \/ \E outside \in BOOLEAN : DragWindowPointerUp(outside)
    \/ DragWindowBlur
    \/ DragClearTimer
    \/ DragRender
    \/ \E final \in BOOLEAN : DragFrame(final)
    \/ DragCancelMomentum

DragSpec == DragInit /\ [][DragNext]_vars

\* ------------------------------------------------------------------------
\* Properties
\* ------------------------------------------------------------------------
B == bufferBeforeWidth(cfg)
W == originalSetWidth(cfg)

\* the viewport is at rest and nothing is left that could report completion
Quiescent ==
    /\ ~FramePending
    /\ smooth = NULL
    /\ ~moved
    /\ preTimers = 0
    /\ \A w \in Watchers : watch[w] = NoWatcher

\* C1: between two handlers, pendingTarget is non-null exactly when the
\* phase is SCROLLING or PRE_TELEPORTING
C1_PendingIffScrolling ==
    (ctx.pendingTarget # NULL) <=> (ctx.phase \in {"SCROLLING", "PRE_TELEPORTING"})

C3_NeverStuck ==
    ~(/\ hasInitialized
      /\ userActions = 1
      /\ ctx.pendingTarget # NULL
      /\ ctx.phase \in {"SCROLLING", "PRE_TELEPORTING"}
      /\ scrollLeft = ctx.pendingTarget
      /\ Quiescent)

\* C4: while isPreTeleporting is up the offset has been shifted by exactly
\* one originalSetWidth since the pre-teleport began, scroll ticks included
C4_GuardShiftsOneSet ==
    ctx.isPreTeleporting => (guard.active /\ Abs(guard.shift) = W)

C4_Witness ==
    /\ ctx.isPreTeleporting
    /\ guard.ticked
    /\ obs.src = "scroll"
    /\ ~InSafeZone(cfg, scrollLeft)

\* C5: isTeleporting is down between handlers, and was down when a
\* performTeleport or preTeleport call began
C5_TeleportingOnlyInsideRewrite ==
    /\ ~ctx.isTeleporting
    /\ ~obs.wasTeleporting
    /\ ~preObs.wasTeleporting

C5_Witness ==
    /\ obs.did
    /\ ~ctx.isTeleporting

\* C6: a reactive teleport from an offset at or beyond the upper threshold
\* lands inside the safe zone
C6_BackTeleportLandsInSafeZone ==
    (obs.src = "scroll" /\ obs.did /\ obs.from >= B + W) => InSafeZone(cfg, obs.to)

C6_Witness ==
    /\ obs.src = "scroll"
    /\ obs.did
    /\ obs.from >= B + 2 * W
    /\ InSafeZone(cfg, obs.to)

C8_BoundaryInclusivity ==
    /\ (obs.src # "none" /\ obs.from = B) => ~obs.did
    /\ (obs.src # "none" /\ ~obs.blocked /\ obs.from = B + W) => obs.did
    /\ (preObs.called /\ preObs.target = B) => ~preObs.did
    /\ (preObs.called /\ preObs.target = B + W) => preObs.did

C8_Witness ==
    /\ obs.src = "scroll"
    /\ obs.from = B + W
    /\ obs.did
    /\ obs.to = B

\* C9: a scroll tick rewrites the offset only when isTeleporting and
\* isPreTeleporting are down and there is no pendingTarget
C9_TickRespectsGuards ==
    (obs.src = "scroll" /\ obs.did)
    => (~obs.wasTeleporting /\ ~obs.wasPre /\ obs.pending = NULL)

C9_Witness ==
    /\ obs.src = "scroll"
    /\ ~obs.did
    /\ ~obs.wasPre
    /\ obs.pending # NULL
    /\ ~InSafeZone(cfg, obs.from)

\* the offset rests on a card slot (a multiple of the stride) within 5%
strideAligned(x) ==
    LET d == x % Stride IN 20 * Min(d, Stride - d) <= Stride

\* C10: in touch mode a teleport is performed only by the settled signal,
\* with no pendingTarget and a stride-aligned resting offset, or by a
\* touch-start within the safety margin of the scrollable extent
C10_TouchTeleportOnlyWhenSettled ==
    (obs.touch /\ obs.did)
    => \/ (obs.src = "scrollend" /\ obs.pending = NULL /\ strideAligned(obs.from))
       \/ (obs.src = "pointerdown" /\ dangerouslyClose(cfg, obs.from))

C14_WitnessFromScrolling ==
    /\ preObs.did
    /\ preObs.phase = "SCROLLING"
    /\ ctx.phase = "PRE_TELEPORTING"

\* C18: the phase is Bouncing only in finite carousels, Bouncing is entered
\* only from Idle, and it is left only by the bounce-end timer's EndBounce,
\* which returns the phase to Idle.
C18_BounceOnlyFiniteFromIdle ==
    [][/\ ctx'.phase = "BOUNCING" => ~cfg.infinite
       /\ (ctx'.phase = "BOUNCING" /\ ctx.phase # "BOUNCING") => ctx.phase = "IDLE"
       /\ (ctx.phase = "BOUNCING" /\ ctx'.phase # "BOUNCING")
            => (ctx'.phase = "IDLE" /\ bounceTimers' = bounceTimers - 1)]_vars

\* a finite carousel bounces at its edge, the bounce-end timer is armed
C18_Witness ==
    /\ ctx.phase = "BOUNCING"
    /\ ~cfg.infinite
    /\ hasInitialized
    /\ bounceTimers > 0
    /\ ctx.bounceTimeoutId

\* two offsets name the same card: equal, or in an infinite carousel a whole
\* number of set widths apart (a pre-teleport shifts the target by one set)
SameCard(a, b) == IF cfg.infinite THEN Abs(a - b) % W = 0 ELSE a = b

\* C19: after the N-th of N arrow navigations in one direction, issued on an
\* initialized carousel before any of them settled, pendingTarget is the
\* slot the first call started from plus N x direction x stride (up to whole
\* set widths in an infinite carousel), and each call after the first jumped
\* the offset to the target that was pending.
C19_CatchUpMonotonic ==
    /\ rapid.n >= 1 =>
            /\ rapid.pending # NULL
            /\ SameCard(rapid.pending, rapid.base + rapid.n * rapid.dir * Stride)
    /\ rapid.n >= 2 => rapid.jumpedTo = rapid.prev

\* C20: a completion signal of an arrow navigation clears pendingTarget only
\* when the offset is within half a stride of it; a signal that finds the
\* offset farther away leaves phase and pendingTarget (the whole context)
\* unchanged.
C20_CompletionRequiresArrival ==
    (navDone.called /\ navDone.pending # NULL) =>
        /\ navDone.pendingAfter = NULL
                => 2 * Abs(navDone.pos - navDone.pending) <= Stride
        /\ 2 * Abs(navDone.pos - navDone.pending) > Stride
                => (navDone.same /\ navDone.phaseAfter = navDone.phase
                                 /\ navDone.pendingAfter = navDone.pending)

\* a premature signal during a navigation was ignored
C20_Witness ==
    /\ navDone.called
    /\ navDone.phase = "SCROLLING"
    /\ navDone.pending # NULL
    /\ ~navDone.wasPre
    /\ 2 * Abs(navDone.pos - navDone.pending) > Stride
    /\ ctx.phase = "SCROLLING"
    /\ ctx.pendingTarget = navDone.pending

\* a signal at the target completed the navigation
C20_WitnessCompleted ==
    /\ navDone.called
    /\ navDone.phase = "SCROLLING"
    /\ navDone.pending # NULL
    /\ navDone.pos = navDone.pending
    /\ navDone.phaseAfter = "IDLE"
    /\ navDone.pendingAfter = NULL

\* C21: for any target inside the safe zone, preTeleport returns the target
\* unchanged, does not write the scroll offset, dispatches no coordinator
\* action and causes no phase change.
C21_SafeTargetLeavesAllUntouched ==
    (preObs.called /\ InSafeZone(cfg, preObs.target)) =>
        /\ preObs.ret = preObs.target
        /\ preObs.to = preObs.from
        /\ preObs.same
        /\ ~preObs.did

\* an arrow navigation of an initialized infinite carousel called preTeleport
\* with a target in the safe zone
C21_Witness ==
    /\ hasInitialized
    /\ preObs.called
    /\ InSafeZone(cfg, preObs.target)
    /\ ctx.phase = "SCROLLING"

\* C22: with a target outside the safe zone, preTeleport shifts the live
\* offset and the returned target by the same amount, plus one set width for
\* a target below the safe zone and minus one set width for a target at or
\* above its end, so that target minus offset is preserved; when it returns,
\* pendingTarget is the returned target.
C22_ShiftsTargetAndOffsetAlike ==
    /\ (preObs.called /\ ~InSafeZone(cfg, preObs.target)) => preObs.did
    /\ preObs.did =>
        /\ preObs.to - preObs.from = preObs.ret - preObs.target
        /\ preObs.ret - preObs.to = preObs.target - preObs.from
        /\ preObs.target < B => preObs.ret - preObs.target = W
        /\ preObs.target >= B + W => preObs.ret - preObs.target = 0 - W
        /\ preObs.pendingAfter = preObs.ret

\* a navigation to the right pre-teleported back by one set width
C22_Witness ==
    /\ hasInitialized
    /\ preObs.did
    /\ preObs.target >= B + W
    /\ ctx.pendingTarget = preObs.ret

\* a navigation to the left pre-teleported forward by one set width
C22_WitnessLeft ==
    /\ hasInitialized
    /\ preObs.did
    /\ preObs.target < B

\* C23: while the phase is Bouncing, and when a finite carousel is at its
\* first or last position and is asked to go further, handleScrollNav changes
\* neither the scroll offset nor pendingTarget and starts no scroll animation.
C23_IgnoredNavigationLeavesViewport ==
    [][\A direction \in {-1, 1} :
         (/\ ArrowClick(direction)
          /\ \/ ctx.phase = "BOUNCING"
             \/ /\ ~cfg.infinite
                /\ \/ direction = -1 /\ scrollLeft = 0
                   \/ direction = 1 /\ scrollLeft = MaxScroll(cfg))
         => /\ scrollLeft' = scrollLeft
            /\ ctx'.pendingTarget = ctx.pendingTarget
            /\ smooth' = smooth
            /\ navRaf' = navRaf]_vars

\* an arrow click was ignored while the carousel was bouncing
C23_Witness ==
    /\ preObs.nav = "ignored"
    /\ ctx.phase = "BOUNCING"
    /\ hasInitialized

\* an arrow click at the last position of a finite carousel bounced
C23_WitnessEdge ==
    /\ preObs.nav = "bounce"
    /\ scrollLeft = MaxScroll(cfg)
    /\ hasInitialized
    /\ navRaf = NULL

C25_OneFramePerBurst ==
    /\ teleportFrames.pending <= 1
    /\ rafId <=> teleportFrames.pending = 1

\* a scroll event arrived with the frame already requested
C25_Witness ==
    /\ teleportFrames.coalesced
    /\ teleportFrames.pending = 1
    /\ hasInitialized

\* ------------------------------------------------------------------------
\* Properties of the reducer (ReducerSpec)
\* ------------------------------------------------------------------------
\* phases from which the transition rules allow an action; an action
\* without a rule about its phase is allowed everywhere
RuleAllowedPhases(type) ==
    CASE type = "INITIALIZE" -> {"UNINITIALIZED"}
      [] type \in {"ARROW_CLICK", "ITEM_CLICK"} -> {"IDLE", "SCROLLING"}
      [] type \in {"SCROLL_COMPLETE", "USER_INTERRUPT"} -> {"SCROLLING"}
      [] type = "START_BOUNCE" -> {"IDLE"}
      [] type = "END_BOUNCE" -> {"BOUNCING"}
      [] type = "START_PRE_TELEPORT" -> {"SCROLLING"}
      [] OTHER -> Phases

\* phases in which reduce lets an action through
GuardedPhases(type) ==
    CASE type \in {"ARROW_CLICK", "ITEM_CLICK"} -> {"IDLE", "SCROLLING"}
      [] type \in {"SCROLL_COMPLETE", "USER_INTERRUPT"} -> {"SCROLLING"}
      [] type = "START_BOUNCE" -> {"IDLE"}
      [] type = "END_BOUNCE" -> {"BOUNCING"}
      [] type = "EXECUTE_TELEPORT" -> {"PRE_TELEPORTING"}
      [] type = "END_TELEPORT" -> {"TELEPORTING"}
      [] type = "END_DRAG" -> {"DRAGGING"}
      [] OTHER -> Phases

C12_ClicksAcceptedInIdleOrScrolling ==
    (dispatch.applied /\ dispatch.action.type \in {"ARROW_CLICK", "ITEM_CLICK"}) =>
        IF dispatch.before.phase \in {"IDLE", "SCROLLING"}
        THEN dispatch.after =
                [dispatch.before EXCEPT
                    !.phase = "SCROLLING",
                    !.pendingTarget = dispatch.action.targetScroll,
                    !.scrollDirection = IF dispatch.action.type = "ARROW_CLICK"
                                        THEN dispatch.action.direction
                                        ELSE 0]
        ELSE dispatch.after = dispatch.before

\* an arrow click blocked in PreTeleporting with another target pending
C12_Witness ==
    /\ dispatch.applied
    /\ dispatch.action.type = "ARROW_CLICK"
    /\ dispatch.before.phase = "PRE_TELEPORTING"
    /\ dispatch.before.pendingTarget # NULL
    /\ dispatch.before.pendingTarget # dispatch.action.targetScroll
    /\ dispatch.after = dispatch.before

\* C13: SetPreTeleporting(false) clears isPreTeleporting and resolves the
\* phase to Scrolling when a pendingTarget exists and to Idle otherwise.
C13_ClearingGuardResolvesPhase ==
    (dispatch.applied /\ dispatch.action.type = "SET_PRE_TELEPORTING"
                      /\ ~dispatch.action.value) =>
        /\ ~dispatch.after.isPreTeleporting
        /\ dispatch.after.phase = IF dispatch.before.pendingTarget # NULL
                                  THEN "SCROLLING" ELSE "IDLE"

\* the guard cleared in phase PreTeleporting with a target pending
C13_Witness ==
    /\ dispatch.applied
    /\ dispatch.action.type = "SET_PRE_TELEPORTING"
    /\ ~dispatch.action.value
    /\ dispatch.before.phase = "PRE_TELEPORTING"
    /\ dispatch.before.isPreTeleporting
    /\ dispatch.before.pendingTarget # NULL
    /\ dispatch.after.phase = "SCROLLING"

\* contexts of one phase, with and without a target pending
PhaseProbe(p) ==
    {[createInitialContext EXCEPT !.phase = p, !.pendingTarget = t] :
        t \in {NULL} \cup ReducerTargets}

\* an action is restricted by the phase when some phase makes reduce ignore it
PhaseRestricted(action) ==
    \E p \in Phases : \A c \in PhaseProbe(p) : reduce(c, action) = c

\* the dispatch wrote the phase or the pendingTarget
WritesPhaseOrTarget ==
    \/ dispatch.after.phase # dispatch.before.phase
    \/ dispatch.after.pendingTarget # dispatch.before.pendingTarget

\* SetPendingTarget(t) sets pendingTarget to t and nothing else, in every phase
SetPendingTargetFrame ==
    (dispatch.applied /\ dispatch.action.type = "SET_PENDING_TARGET") =>
        dispatch.after = [dispatch.before EXCEPT !.pendingTarget = dispatch.action.target]

\* C15 (as stated): SetPendingTarget writes pendingTarget from every phase
\* and leaves the rest alone, and every other action that writes phase or
\* pendingTarget is restricted by the current phase.
C15_OnlyUnconditionalWrite ==
    /\ SetPendingTargetFrame
    /\ (dispatch.applied /\ dispatch.action.type # "SET_PENDING_TARGET"
                         /\ WritesPhaseOrTarget)
            => PhaseRestricted(dispatch.action)

\* C15 (amended): SetPendingTarget writes pendingTarget from every phase and
\* leaves the rest alone; the actions other than SetPendingTarget that write
\* phase or pendingTarget without a restriction by the phase are
\* SetPreTeleporting(false) and StartDrag, besides Initialize and
\* StartPreTeleport, which set their phase from every phase.
C15_UnconditionalWrites ==
    /\ SetPendingTargetFrame
    /\ (dispatch.applied /\ WritesPhaseOrTarget /\ ~PhaseRestricted(dispatch.action))
            => dispatch.action.type \in {"SET_PENDING_TARGET", "SET_PRE_TELEPORTING",
                                         "START_DRAG"}
    /\ (dispatch.applied /\ dispatch.action.type = "INITIALIZE")
            => dispatch.after.phase = "IDLE"
    /\ (dispatch.applied /\ dispatch.action.type = "START_PRE_TELEPORT")
            => dispatch.after.phase = "PRE_TELEPORTING"

\* the target rewritten in phase PreTeleporting, where clicks are blocked
C15_Witness ==
    /\ dispatch.applied
    /\ dispatch.action.type = "SET_PENDING_TARGET"
    /\ dispatch.before.phase = "PRE_TELEPORTING"
    /\ dispatch.before.pendingTarget # dispatch.action.target
    /\ dispatch.after.pendingTarget = dispatch.action.target
    /\ dispatch.after.phase = "PRE_TELEPORTING"

\* C16: Initialize moves Uninitialized to Idle and has no effect on the
\* context in any other phase.
C16_InitializeOnlyFromUninitialized ==
    (dispatch.applied /\ dispatch.action.type = "INITIALIZE") =>
        IF dispatch.before.phase = "UNINITIALIZED"
        THEN dispatch.after = [dispatch.before EXCEPT !.phase = "IDLE"]
        ELSE dispatch.after = dispatch.before

\* C17: ScrollComplete or UserInterrupt dispatched in phase Scrolling gives
\* phase Idle with pendingTarget and scrollDirection both null.
C17_ScrollingEndsIdle ==
    (dispatch.applied /\ dispatch.action.type \in {"SCROLL_COMPLETE", "USER_INTERRUPT"}
                      /\ dispatch.before.phase = "SCROLLING") =>
        /\ dispatch.after.phase = "IDLE"
        /\ dispatch.after.pendingTarget = NULL
        /\ dispatch.after.scrollDirection = 0

\* a scroll with a target and a direction was completed
C17_Witness ==
    /\ dispatch.applied
    /\ dispatch.action.type = "SCROLL_COMPLETE"
    /\ dispatch.before.phase = "SCROLLING"
    /\ dispatch.before.pendingTarget # NULL
    /\ dispatch.before.scrollDirection # 0
    /\ dispatch.after.phase = "IDLE"
    /\ dispatch.after.pendingTarget = NULL

\* ------------------------------------------------------------------------
\* Properties of the drag physics (DragSpec)
\* ------------------------------------------------------------------------
\* C26: whenever the drag physics is pressed, a window-level pointer-up
\* outside the element or a window blur ends the drag: pressed is false and
\* the clearing of the dragging flag is armed, even though the element got no
\* pointer-up, and the flag never stays set without it; when not pressed,
\* either event changes nothing.
C26_ReleaseOutsideEndsDrag ==
    /\ (drag.last \in {"windowUp", "blur"} /\ drag.wasDown)
          => (~drag.isDown /\ drag.clearTimers > 0)
    /\ (~drag.isDown /\ drag.isDragging) => drag.clearTimers > 0
    /\ (drag.last \in {"windowUp", "blur"} /\ ~drag.wasDown) => drag.same

\* a drag in progress was ended by a pointer-up outside the element
C26_Witness ==
    /\ drag.last = "windowUp"
    /\ drag.wasDown
    /\ drag.isDragging
    /\ ~drag.isDown

\* a window blur with nothing pressed
C26_WitnessIdle ==
    /\ drag.last = "blur"
    /\ ~drag.wasDown
    /\ drag.same

\* C27: during an edge pull on a finite carousel and after its release, the
\* real scroll offset stays what it was when the pull began, no momentum
\* scroll, snap scroll or bounce is started, and the transform is empty once
\* the snap-back has finished.
C27_EdgePullLeavesOffset ==
    /\ drag.pull.stage # "none" =>
          /\ ~cfg.infinite
          /\ scrollLeft = drag.pull.at
          /\ drag.anim.kind \in {"none", "snapBack"}
    /\ drag.pull.stage = "pulling" => (drag.isPullingEdge /\ drag.transform.set)
    /\ drag.pull.stage = "finished" => (~drag.transform.set /\ drag.anim.kind = "none")

\* an edge pull was released with zero velocity and its snap-back has finished
C27_Witness ==
    /\ drag.pull.stage = "finished"
    /\ drag.velocity = 0
    /\ ~drag.isDown
    /\ ~drag.transform.set

\* ------------------------------------------------------------------------
\* Properties of the resize-driven measurement (LayoutSpec)
\* ------------------------------------------------------------------------
\* C28: the first resize observation after mount measures immediately and no
\* later one does; a burst of later observations, each made before the
\* timeout of the one before ran, has one timeout armed, due one debounce
\* interval after the last observation, and is measured exactly once, then.
C28_FirstImmediateThenDebounced ==
    /\ layout.immediate = (IF layout.observations > 0 THEN 1 ELSE 0)
    /\ Len(layout.timers) <= 1
    /\ layout.timers # <<>> => layout.timers[1] = DebounceTicks - layout.age
    /\ layout.delayed + Len(layout.timers) = layout.bursts
    /\ layout.firedAge \in {NULL, DebounceTicks}

\* after the first observation, a burst of two observations was measured once
C28_Witness ==
    /\ layout.observations = 3
    /\ layout.immediate = 1
    /\ layout.bursts = 1
    /\ layout.delayed = 1
    /\ layout.timers = <<>>

\* ------------------------------------------------------------------------
\* Properties of the rendered sequence (CloneSpec)
\* ------------------------------------------------------------------------
\* k = max(1, ceil(MIN_BUFFER_COUNT / n)): the least k >= 1 with k * n >= MIN_BUFFER_COUNT
LeastRepeat(n) ==
    CHOOSE k \in 1..MIN_BUFFER_COUNT :
        /\ k = 1 \/ (k - 1) * n < MIN_BUFFER_COUNT
        /\ k * n >= MIN_BUFFER_COUNT

\* C29: for an infinite carousel with N >= 1 items, the rendered sequence has
\* exactly 2 * k * N + N items with k = max(1, ceil(MIN_BUFFER_COUNT / N)),
\* bufferBeforeCount is k * N, and the count does not change with scrolling,
\* navigation or teleports.
C29_RenderedCount ==
    cfg.infinite =>
        /\ Len(allItems) = 2 * LeastRepeat(cfg.itemsCount) * cfg.itemsCount + cfg.itemsCount
        /\ Len(clonesOf(cfg)) = LeastRepeat(cfg.itemsCount) * cfg.itemsCount
        /\ bufferBeforeCount(cfg) = Len(clonesOf(cfg))
        /\ TotalItems(cfg) = Len(allItems)

\* three items are rendered 105 times over, also after the offset moved
C29_Witness ==
    /\ cfg.infinite
    /\ cfg.itemsCount = 3
    /\ scrollLeft = MaxScroll(cfg)
    /\ Len(allItems) = 105

\* ------------------------------------------------------------------------
\* Properties of the end-reached callback (ReachSpec)
\* ------------------------------------------------------------------------
\* C30 (as stated): onEndReached is invoked once per crossing of the
\* proximity threshold: while the offset stays inside the threshold, further
\* scroll events do not invoke it again, however long the offset stays there.
C30_OncePerCrossing ==
    reach.stayCalls <= 1

\* C30 (amended): a scroll event, or the check of a render, invokes
\* onEndReached exactly when the offset is inside the proximity threshold and
\* more than 1000 ms have passed since the last invocation; an offset that
\* stays inside the threshold is reported again after that time.
C30_RateLimitedInsideThreshold ==
    reach.last.checked =>
        (reach.last.fired <=>
            (reach.last.inside /\ reach.last.elapsed > RateLimitTicks))

\* onEndReached was invoked twice without the offset leaving the threshold
C30_Witness ==
    /\ reach.stayCalls >= 2
    /\ reach.last.fired
    /\ nearEnd(cfg, scrollLeft)

\* ------------------------------------------------------------------------
\* Properties of navigation, completion and teleports (Spec)
\* ------------------------------------------------------------------------
\* C34: after every handleScrollNav call of the initialized carousel that
\* starts a smooth scroll, pendingTarget equals the target passed to that
\* smooth scroll, in whichever phase the call was made and whether or not
\* the call pre-teleported.
C34_PendingIsScrollTarget ==
    (hasInitialized /\ preObs.nav = "scroll") => ctx.pendingTarget = navRaf

\* C37: in the initialized carousel isPreTeleporting stays true for the full
\* guard delay counted from each pre-teleport: as long as the guard-clear timer of the latest
\* pre-teleport is pending, the flag is up (the phase is resolved by the
\* same transition that lowers the flag), also when an earlier pre-teleport
\* was made less than one guard delay before.  Timers of equal delay fire in
\* the order they were armed, so a timer fired with another one pending is
\* that of the earlier pre-teleport.
C37_GuardHeldForFullDelay ==
    (hasInitialized /\ preTimers > 0) => ctx.isPreTeleporting

\* C38: whenever handleScrollNav of the initialized carousel applies the
\* edge-bounce transform, the coordinator has accepted START_BOUNCE and the
\* phase is Bouncing, also when the edge click arrives while an earlier
\* navigation is still in phase Scrolling.
C38_BounceTransformMeansBouncing ==
    (hasInitialized /\ preObs.nav = "bounce") => ctx.phase = "BOUNCING"

\* C39: a complete reactive or deferred teleport (SET_TELEPORTING true, the
\* offset rewrite, SET_TELEPORTING false, END_TELEPORT) leaves the phase,
\* pendingTarget and scrollDirection exactly as they were before it, in
\* whichever phase it runs.
C39_TeleportKeepsPhaseAndTarget ==
    obs.did => obs.kept

\* a touch-start teleported during a navigation, a scroll tick at rest
C39_Witness ==
    /\ obs.did
    /\ obs.src = "pointerdown"
    /\ obs.pending # NULL
    /\ obs.phase \in {"SCROLLING", "PRE_TELEPORTING"}
    /\ ctx.isTeleporting = FALSE

C39_WitnessIdle ==
    /\ obs.did
    /\ obs.src = "scroll"
    /\ obs.phase = "IDLE"
    /\ ctx.phase = "IDLE"

\* C40: every teleport (reactive, deferred or proactive) changes the scroll
\* offset by a non-zero whole multiple of originalSetWidth, so the item
\* selected at the offset is the same immediately before and after it.
C40_TeleportShiftsWholeSets ==
    /\ obs.did =>
        /\ obs.to # obs.from
        /\ (obs.to - obs.from) % W = 0
        /\ \A direction \in {-1, 0, 1}, eager \in BOOLEAN :
              getActiveItemAtScroll(cfg, obs.to, direction, eager)
                = getActiveItemAtScroll(cfg, obs.from, direction, eager)
    /\ preObs.did =>
        /\ preObs.to # preObs.from
        /\ (preObs.to - preObs.from) % W = 0
        /\ \A direction \in {-1, 0, 1}, eager \in BOOLEAN :
              getActiveItemAtScroll(cfg, preObs.to, direction, eager)
                = getActiveItemAtScroll(cfg, preObs.from, direction, eager)

\* a reactive teleport moved a carousel of more than one item back by more
\* than one set width
C40_Witness ==
    /\ obs.did
    /\ obs.src = "scroll"
    /\ cfg.itemsCount > 1
    /\ obs.from - obs.to >= 2 * W

\* a pre-teleport of a carousel of more than one item
C40_WitnessProactive ==
    /\ preObs.did
    /\ hasInitialized
    /\ cfg.itemsCount > 1

\* C35: for an initialized infinite carousel in pointer (non-touch) mode,
\* whenever the phase is Idle, no smooth scroll is in flight and every queued
\* scroll event and requested animation frame has been served, the scroll
\* offset lies inside the safe zone.
C35_IdleRestsInSafeZone ==
    (/\ cfg.infinite
     /\ hasInitialized
     /\ ~isTouchInteraction
     /\ ctx.phase = "IDLE"
     /\ smooth = NULL
     /\ ~FramePending)
    => InSafeZone(cfg, scrollLeft)

\* C36: a completion signal (scrollend listener, debounce timer or safety
\* timeout) registered for an earlier arrow or item-click navigation never
\* makes SCROLL_COMPLETE take effect for a later navigation that superseded
\* it: pendingTarget is cleared only by a signal of the watcher armed by the
\* latest navigation, and never by the debounce timer of a replaced listener.
C36_OnlyLatestWatcherCompletes ==
    (hasInitialized /\ navDone.clearedBy # "none") =>
        /\ navDone.clearedBy = navDone.owner
        /\ ~navDone.stale


\* ------------------------------------------------------------------------
\* Active-item reporting (Carousel.tsx: the emitActiveItem effect, onNavigate
\* and scrollToThisItem), on an initialised carousel
\* ------------------------------------------------------------------------
\* arrow navigations in one behaviour of the active-item study
MaxNavigations == 2

\* onActiveItemChange(item): the refs after the call, and the record of it
reportItem(a, context, item, path) ==
    [a EXCEPT !.last = item,
              !.reported = item,
              !.call = [made |-> TRUE, path |-> path, item |-> item,
                        previous |-> a.reported,
                        pending |-> context.pendingTarget,
                        teleporting |-> context.isTeleporting]]

\* a handler that looked at the active item and made no call
noReport(a, context, path) ==
    [a EXCEPT !.call = [NoCall EXCEPT !.path = path,
                                      !.pending = context.pendingTarget,
                                      !.teleporting = context.isTeleporting]]

\* direction = lastMeaningfulDirectionRef unless |delta| > 5
stabilizedDirection(a, currentScroll) ==
    IF Abs(currentScroll - a.lastScrollLeft) > 5
    THEN (IF currentScroll - a.lastScrollLeft > 0 THEN 1 ELSE -1)
    ELSE a.lastDirection

\* emitActiveItem(scrollLeft), called by handleScrollImmediate (every scroll
\* event) and handleScrollEnd (scrollend, or 150ms without a scroll event)
emitActiveItem(c, context, a, currentScroll, path) ==
    IF context.isTeleporting \/ context.pendingTarget # NULL
    THEN [noReport(a, context, path) EXCEPT !.lastScrollLeft = currentScroll]
    ELSE LET direction == stabilizedDirection(a, currentScroll)
             item == getActiveItemAtScroll(c, currentScroll, direction, a.eager)
             seen == [a EXCEPT !.lastDirection = direction,
                               !.lastScrollLeft = currentScroll]
         IN  IF item # NULL /\ item # a.last
             THEN reportItem(seen, context, item, path)
             ELSE noReport(seen, context, path)

\* onNavigate(targetScroll) of the navigation hook, and the same lines of
\* scrollToThisItem: the item at the target, handed to onActiveItemChange
onNavigate(c, context, a, targetScroll, path) ==
    LET item == getActiveItemAtScroll(c, targetScroll, 0, a.eager)
    IN  IF item # NULL
        THEN reportItem(a, context, item, path)
        ELSE noReport(a, context, path)

\* the carousel after initializeCarousel, centred on the first item; the
\* eager threshold is in force on mobile with eagerSelectionOnMobile
ActiveInit ==
    /\ cfg \in Configs
    /\ scrollLeft = (IF cfg.infinite THEN bufferBeforeWidth(cfg) ELSE 0)
    /\ allItems = buildAllItems(cfg)
    /\ drag = createDrag
    /\ layout = createLayout
    /\ reach = createReach
    /\ activeItem \in {[createActive EXCEPT !.eager = e,
                                            !.lastScrollLeft = scrollLeft] :
                          e \in BOOLEAN}
    /\ hook = createHook
    /\ visuals = createVisuals
    /\ hasInitialized = TRUE
    /\ ctx = reduce(createInitialContext, A_INITIALIZE)
    /\ smooth = NULL
    /\ navRaf = NULL
    /\ scrollEvt = FALSE
    /\ moved = FALSE
    /\ isTouchInteraction = FALSE
    /\ rafId = FALSE
    /\ preTimers = 0
    /\ watch = [w \in Watchers |-> NoWatcher]
    /\ grace = FALSE
    /\ bounceTimers = 0
    /\ userActions = 0
    /\ intr = NoIntr
    /\ obs = NoObs
    /\ preObs = NoPre
    /\ tpChain = NoChain
    /\ guard = NoGuard
    /\ rapid = NoRapid
    /\ navDone = NoNavDone
    /\ dispatch = NoDispatch
    /\ teleportFrames = NoFrames

\* what the active-item study leaves alone
activeRest == <<cfg, hasInitialized, smooth, navRaf, scrollEvt, moved,
                isTouchInteraction, rafId, watch, grace, bounceTimers, userActions,
                intr, obs, preObs, tpChain, guard, rapid, navDone, dispatch,
                teleportFrames, allItems, drag, layout, reach, hook, visuals>>

\* offsets a scroll can pass through: card positions and the points between
ActiveOffsets(c) ==
    LET base == IF c.infinite THEN bufferBeforeWidth(c) ELSE 0
        far == IF c.infinite THEN c.itemsCount + 1 ELSE c.itemsCount - 1
    IN  {v \in {base + i * Stride + e : i \in (IF c.infinite THEN -1 ELSE 0)..far,
                                        e \in {0, 60, StrideHalf}} :
            v >= 0 /\ v <= MaxScroll(c)}

\* a scroll event at a new offset: handleScrollImmediate
ActiveScroll(x) ==
    /\ x # scrollLeft
    /\ scrollLeft' = x
    /\ activeItem' = emitActiveItem(cfg, ctx, activeItem, x, "scroll")
    /\ UNCHANGED <<ctx, preTimers, activeRest>>

\* the scroll came to rest: handleScrollEnd
ActiveScrollEnd ==
    /\ activeItem' = emitActiveItem(cfg, ctx, activeItem, scrollLeft, "settle")
    /\ UNCHANGED <<ctx, scrollLeft, preTimers, activeRest>>

\* the teleport hook rewrites the offset in the frame after a scroll event,
\* and the rewrite raises a scroll event of its own
ActiveTeleport ==
    LET r == performTeleport(cfg, ctx, scrollLeft, "scroll")
    IN  /\ cfg.infinite
        /\ handleScrollEvaluates(ctx, FALSE)
        /\ r.did
        /\ ctx' = r.ctx
        /\ scrollLeft' = r.scrollLeft
        /\ activeItem' = emitActiveItem(cfg, r.ctx, activeItem, r.scrollLeft, "scroll")
        /\ UNCHANGED <<preTimers, activeRest>>

\* handleScrollNav without the bounce: catch-up, preTeleport, ARROW_CLICK,
\* onNavigate(targetScroll)
ActiveArrow(direction) ==
    LET caught == ctx.pendingTarget # NULL
        x1 == IF caught THEN Clamp(cfg, ctx.pendingTarget) ELSE scrollLeft
        target == IF caught
                  THEN ctx.pendingTarget + direction * Stride
                  ELSE idleTarget(cfg, scrollLeft, direction)
        pre == preTeleport(cfg, ctx, x1, target)
        after == reduce(pre.ctx, A_ARROW_CLICK(direction, pre.ret))
    IN  /\ activeItem.navs < MaxNavigations
        /\ ctx.phase # "BOUNCING"
        /\ ~atEdge(cfg, scrollLeft, direction)
        /\ ctx' = after
        /\ scrollLeft' = pre.scrollLeft
        /\ preTimers' = IF pre.did THEN preTimers + 1 ELSE preTimers
        /\ activeItem' = [onNavigate(cfg, after, activeItem, pre.ret, "arrow")
                             EXCEPT !.navs = @ + 1]
        /\ UNCHANGED activeRest

\* scrollToThisItem(index) for the centred card or one next to it
ActiveItemClick(d) ==
    LET target == itemTarget(cfg, scrollLeft, d)
        after == reduce(ctx, A_ITEM_CLICK(target))
    IN  /\ activeItem.navs < MaxNavigations
        /\ target >= 0
        /\ target <= (TotalItems(cfg) - 1) * Stride
        /\ ctx' = after
        /\ activeItem' = [onNavigate(cfg, after, activeItem, target, "click")
                             EXCEPT !.navs = @ + 1]
        /\ UNCHANGED <<scrollLeft, preTimers, activeRest>>

\* the smooth scroll arrives (its scroll events find pendingTarget set) and
\* the completion watcher dispatches SCROLL_COMPLETE
ActiveArrive ==
    /\ ctx.pendingTarget # NULL
    /\ ~ctx.isPreTeleporting
    /\ scrollLeft' = Clamp(cfg, ctx.pendingTarget)
    /\ activeItem' = emitActiveItem(cfg, ctx, activeItem,
                                    Clamp(cfg, ctx.pendingTarget), "scroll")
    /\ ctx' = reduce(ctx, A_SCROLL_COMPLETE)
    /\ UNCHANGED <<preTimers, activeRest>>

\* wheel or touch during a programmatic scroll: USER_INTERRUPT
ActiveInterrupt ==
    /\ ctx.pendingTarget # NULL
    /\ ctx' = reduce(ctx, A_USER_INTERRUPT)
    /\ activeItem' = [activeItem EXCEPT !.call = NoCall]
    /\ UNCHANGED <<scrollLeft, preTimers, activeRest>>

\* the guard-clear timer of preTeleport
ActiveGuardTimer ==
    /\ preTimers > 0
    /\ preTimers' = preTimers - 1
    /\ ctx' = reduce(ctx, A_SET_PRE_TELEPORTING(FALSE))
    /\ activeItem' = [activeItem EXCEPT !.call = NoCall]
    /\ UNCHANGED <<scrollLeft, activeRest>>

ActiveNext ==
    \/ \E x \in ActiveOffsets(cfg) : ActiveScroll(x)
    \/ ActiveScrollEnd
    \/ ActiveTeleport
    \/ \E direction \in {-1, 1} : ActiveArrow(direction)
    \/ \E d \in {-1, 0, 1} : ActiveItemClick(d)
    \/ ActiveArrive
    \/ ActiveInterrupt
    \/ ActiveGuardTimer

ActiveSpec == ActiveInit /\ [][ActiveNext]_vars

\* C31: onActiveItemChange is never called twice in a row with the same
\* item, whichever path makes the call (scroll event, scroll settle, arrow
\* navigation, item click), and the scroll paths make no call while
\* isTeleporting is set or pendingTarget is non-null
C31_ReportsOnlyChanges ==
    activeItem.call.made =>
        /\ activeItem.call.item # activeItem.call.previous
        /\ activeItem.call.path \in {"scroll", "settle"} =>
              (~activeItem.call.teleporting /\ activeItem.call.pending = NULL)


\* ------------------------------------------------------------------------
\* useCarouselTeleport on any options: container missing, finite carousel,
\* no items, stride 0 (cardWidth 0 and gap 0, no DOM stride to replace it)
\* ------------------------------------------------------------------------
\* calls into the hook in one behaviour of the options study
MaxHookCalls == 3

\* Carousel.tsx bufferBeforeCount for the hook's items
hookBufferCount(h) ==
    IF h.infinite /\ h.itemsCount > 0
    THEN RepeatCount(h.itemsCount) * h.itemsCount
    ELSE 0

\* originalSetWidth = itemsCount * stride, bufferBeforeWidth = bufferBeforeCount * stride
hookSetWidth(h) == h.itemsCount * h.stride
hookBufferWidth(h) == hookBufferCount(h) * h.stride

\* the scroll range of the container: the cards laid out at the stride
hookMaxScroll(h) ==
    Max(0, (2 * hookBufferCount(h) + h.itemsCount - 1) * h.stride)

\* the guard of the effect and of preTeleport:
\* if (!el || !infinite || itemsCount === 0) return
hookInactive(h) == ~h.container \/ ~h.infinite \/ h.itemsCount = 0

\* the options the hook treats as "no teleport possible"
hookDegenerate(h) == hookInactive(h) \/ h.stride <= 0

\* a call that wrote nothing and dispatched nothing
hookNoop(context, currentScroll, ret) ==
    [ret |-> ret, ctx |-> context, scrollLeft |-> currentScroll,
     writes |-> 0, dispatches |-> 0, did |-> FALSE]

\* preTeleport(targetScroll): five transitions, el.scrollTo and el.scrollLeft
preTeleportWith(h, context, currentScroll, targetScroll) ==
    LET needsLeft == targetScroll < hookBufferWidth(h)
        needsRight == targetScroll >= hookBufferWidth(h) + hookSetWidth(h)
        offset == IF needsLeft THEN hookSetWidth(h) ELSE 0 - hookSetWidth(h)
    IN  IF hookInactive(h)
        THEN hookNoop(context, currentScroll, targetScroll)
        ELSE IF ~needsLeft /\ ~needsRight
        THEN hookNoop(context, currentScroll, targetScroll)
        ELSE [ret |-> targetScroll + offset,
              ctx |-> preTeleportTransitions(context, targetScroll + offset),
              scrollLeft |-> Max(0, Min(hookMaxScroll(h), currentScroll + offset)),
              writes |-> 2, dispatches |-> 5, did |-> TRUE]

\* setsPassed > 0, with Math.floor(overshoot / 0) = Infinity for a positive
\* overshoot and NaN for 0
setsPassedPositive(h, overshoot) ==
    IF hookSetWidth(h) = 0
    THEN overshoot > 0
    ELSE overshoot \div hookSetWidth(h) > 0

\* currentScroll - setsPassed * originalSetWidth; Infinity * 0 is NaN, and a
\* NaN assigned to el.scrollLeft scrolls to 0
backPosition(h, currentScroll) ==
    IF hookSetWidth(h) = 0
    THEN 0
    ELSE currentScroll
           - ((currentScroll - hookBufferWidth(h)) \div hookSetWidth(h)) * hookSetWidth(h)

\* performTeleport(source) of an attached effect: three transitions,
\* el.scrollTo and el.scrollLeft
performTeleportWith(h, context, currentScroll, source) ==
    LET rewrite(newPos) ==
            [ret |-> NULL, ctx |-> teleportTransitions(context),
             scrollLeft |-> Max(0, Min(hookMaxScroll(h), newPos)),
             writes |-> 2, dispatches |-> 3, did |-> TRUE]
    IN  IF performTeleportBlocked(context, source)
        THEN hookNoop(context, currentScroll, NULL)
        ELSE IF currentScroll >= hookBufferWidth(h) + hookSetWidth(h)
        THEN IF setsPassedPositive(h, currentScroll - hookBufferWidth(h))
             THEN rewrite(backPosition(h, currentScroll))
             ELSE hookNoop(context, currentScroll, NULL)
        ELSE IF currentScroll < hookBufferWidth(h)
        THEN rewrite(currentScroll + hookSetWidth(h))
        ELSE hookNoop(context, currentScroll, NULL)

\* the scroll event of an element the effect may have listeners on: the
\* frame of handleScroll calls performTeleport unless a teleport is under way
reactiveTeleport(h, context, currentScroll) ==
    IF hookInactive(h) \/ ~handleScrollEvaluates(context, FALSE)
    THEN hookNoop(context, currentScroll, NULL)
    ELSE performTeleportWith(h, context, currentScroll, "scroll")

\* the options the study draws from
HookOptions ==
    {[createHook EXCEPT !.container = e, !.infinite = i, !.itemsCount = n,
                        !.stride = s] :
        e \in BOOLEAN, i \in BOOLEAN, n \in 0..MaxItems, s \in {0, Stride}}

\* offsets and targets: the thresholds of the safe zone and their neighbours
HookTargets(h) ==
    {v \in {0, Stride, hookBufferWidth(h) - Stride, hookBufferWidth(h),
            hookBufferWidth(h) + hookSetWidth(h) - Stride,
            hookBufferWidth(h) + hookSetWidth(h),
            hookBufferWidth(h) + hookSetWidth(h) + Stride} : v >= 0}

HookInit ==
    /\ cfg \in {c \in Configs : ~c.infinite}
    /\ hook \in HookOptions
    /\ scrollLeft = Min(hookMaxScroll(hook), hookBufferWidth(hook))
    /\ allItems = buildAllItems(cfg)
    /\ drag = createDrag
    /\ layout = createLayout
    /\ reach = createReach
    /\ activeItem = createActive
    /\ visuals = createVisuals
    /\ hasInitialized = TRUE
    /\ ctx = reduce(createInitialContext, A_INITIALIZE)
    /\ smooth = NULL
    /\ navRaf = NULL
    /\ scrollEvt = FALSE
    /\ moved = FALSE
    /\ isTouchInteraction = FALSE
    /\ rafId = FALSE
    /\ preTimers = 0
    /\ watch = [w \in Watchers |-> NoWatcher]
    /\ grace = FALSE
    /\ bounceTimers = 0
    /\ userActions = 0
    /\ intr = NoIntr
    /\ obs = NoObs
    /\ preObs = NoPre
    /\ tpChain = NoChain
    /\ guard = NoGuard
    /\ rapid = NoRapid
    /\ navDone = NoNavDone
    /\ dispatch = NoDispatch
    /\ teleportFrames = NoFrames

\* what the options study leaves alone
hookRest == <<cfg, hasInitialized, smooth, navRaf, scrollEvt, moved,
              isTouchInteraction, rafId, watch, grace, bounceTimers,
              intr, obs, preObs, tpChain, guard, rapid, navDone, dispatch,
              teleportFrames, allItems, drag, layout, reach, activeItem, visuals>>

\* the record of a call into the hook
hookCalled(h, op, arg, r) ==
    [h EXCEPT !.op = op, !.arg = arg, !.ret = r.ret, !.writes = r.writes,
              !.dispatches = r.dispatches]

\* a caller invokes preTeleport(targetScroll)
HookPreTeleport(targetScroll) ==
    LET r == preTeleportWith(hook, ctx, scrollLeft, targetScroll)
    IN  /\ userActions < MaxHookCalls
        /\ userActions' = userActions + 1
        /\ ctx' = r.ctx
        /\ scrollLeft' = r.scrollLeft
        /\ preTimers' = IF r.did THEN preTimers + 1 ELSE preTimers
        /\ hook' = hookCalled(hook, "preTeleport", targetScroll, r)
        /\ UNCHANGED hookRest

\* the user scrolls the container to x; the frame after the scroll event
HookScroll(x) ==
    LET r == reactiveTeleport(hook, ctx, x)
    IN  /\ hook.container
        /\ userActions < MaxHookCalls
        /\ userActions' = userActions + 1
        /\ x # scrollLeft
        /\ x <= hookMaxScroll(hook)
        /\ ctx' = r.ctx
        /\ scrollLeft' = r.scrollLeft
        /\ hook' = hookCalled(hook, "scroll", x, r)
        /\ UNCHANGED <<preTimers, hookRest>>

\* the guard-clear timer of a preTeleport that teleported
HookGuardTimer ==
    /\ preTimers > 0
    /\ preTimers' = preTimers - 1
    /\ ctx' = reduce(ctx, A_SET_PRE_TELEPORTING(FALSE))
    /\ hook' = [hook EXCEPT !.op = "none", !.writes = 0, !.dispatches = 0]
    /\ UNCHANGED <<scrollLeft, userActions, hookRest>>

\* the caller's scroll completes: SCROLL_COMPLETE clears the pending target
HookScrollComplete ==
    /\ ctx.pendingTarget # NULL
    /\ ~ctx.isPreTeleporting
    /\ ctx' = reduce(ctx, A_SCROLL_COMPLETE)
    /\ hook' = [hook EXCEPT !.op = "none", !.writes = 0, !.dispatches = 0]
    /\ UNCHANGED <<scrollLeft, preTimers, userActions, hookRest>>

HookNext ==
    \/ \E targetScroll \in HookTargets(hook) : HookPreTeleport(targetScroll)
    \/ \E x \in HookTargets(hook) : HookScroll(x)
    \/ HookGuardTimer
    \/ HookScrollComplete

HookSpec == HookInit /\ [][HookNext]_vars

\* C32: with the container missing, a finite carousel, no items or a
\* stride <= 0, preTeleport returns its argument unchanged, and neither it
\* nor the reactive teleport writes the scroll offset or dispatches a
\* coordinator transition
C32_DegenerateOptionsAreInert ==
    (hookDegenerate(hook) /\ hook.op # "none") =>
        /\ hook.writes = 0
        /\ hook.dispatches = 0
        /\ hook.op = "preTeleport" => hook.ret = hook.arg


\* ------------------------------------------------------------------------
\* Visual effects (useCarouselVisuals: updateCache, applyVisuals)
\* ------------------------------------------------------------------------
\* VISUAL_CONFIG
VIEW_BUFFER == 200
CENTER_THRESHOLD == 10

\* half cards the viewport is scrolled by in the visuals study
MaxVisualSteps == 4

Viewports == {"mobile", "tablet", "desktop"}

\* containerWidthRef: el.clientWidth of a container that centres a card, for window.innerWidth
\* below 640, below 1024, and above
containerWidth(viewport) ==
    IF viewport = "mobile" THEN 376 ELSE IF viewport = "tablet" THEN 768 ELSE 1160

\* MAX_DIST_MOBILE, MAX_DIST_TABLET, MAX_DIST_DESKTOP
maxDist(viewport) ==
    IF viewport = "mobile" THEN 320 ELSE IF viewport = "tablet" THEN 400 ELSE 500

\* BASE_SCALE_MOBILE (0.80), BASE_SCALE_TABLET (0.82), BASE_SCALE_DESKTOP
\* (0.85), in hundredths
baseScale(viewport) ==
    IF viewport = "mobile" THEN 80 ELSE IF viewport = "tablet" THEN 82 ELSE 85

\* updateCache: offsetLeft and offsetWidth of every child
measuredPositions(c) ==
    [i \in 1..TotalItems(c) |-> [left |-> (i - 1) * Stride, width |-> INITIAL_CARD_WIDTH]]

\* dist / maxDist without the clamp
normDistUnclamped(dist, viewport) == dist

\* normDist = Math.min(dist / maxDist, 1), as the numerator over maxDist
normDist(dist, viewport) == Min(dist, maxDist(viewport))

\* All lengths of the study are even, so the ratio dist / maxDist is taken
\* on their halves, which keeps the cubes below 2^31.
\* denominator of easeFactor: (maxDist / 2)^3
easeDen(viewport) ==
    (maxDist(viewport) \div 2) * (maxDist(viewport) \div 2) * (maxDist(viewport) \div 2)

\* easeFactor = 1 - Math.pow(1 - factor, 3) with factor = 1 - normDist, as
\* the numerator over easeDen
easeFactor(dist, viewport) ==
    LET u == normDist(dist, viewport) \div 2
    IN  easeDen(viewport) - u * u * u

\* scale = baseScale + scaleRange * easeFactor, as the numerator over
\* 100 * easeDen
scaleOf(dist, viewport) ==
    baseScale(viewport) * easeDen(viewport)
        + (100 - baseScale(viewport)) * easeFactor(dist, viewport)

\* opacity = 0.5 + 0.5 * easeFactor, and 1 within CENTER_THRESHOLD of the
\* centre, as the numerator over 2 * easeDen
opacityOf(dist, viewport) ==
    IF dist < CENTER_THRESHOLD
    THEN 2 * easeDen(viewport)
    ELSE easeDen(viewport) + easeFactor(dist, viewport)

\* the children the loop of applyVisuals processes: index range from the
\* stride, then the bounds check on the cached position
processedChildren(v, currentScrollLeft) ==
    LET count == Len(v.positions)
        viewStart == currentScrollLeft - VIEW_BUFFER
        viewEnd == currentScrollLeft + containerWidth(v.viewport) + VIEW_BUFFER
        firstItemLeft == v.positions[1].left
        startIndex == Max(0, FloorDiv(viewStart - INITIAL_CARD_WIDTH - firstItemLeft,
                                      Stride) - 4)
        endIndex == Min(count, CeilDivInt(viewEnd - firstItemLeft, Stride) + 4)
    IN  {i \in 1..count :
            /\ i - 1 >= startIndex
            /\ i - 1 < endIndex
            /\ ~(v.positions[i].left + v.positions[i].width < viewStart
                 \/ v.positions[i].left > viewEnd)}

\* applyVisuals(el): the styles computed, one record per processed child
\* (scale is written unless disableScaleEffect, opacity unless
\* disableOpacityEffect)
applyVisuals(v, currentScrollLeft) ==
    LET containerCenter == currentScrollLeft + containerWidth(v.viewport) \div 2
        distOf(i) == Abs(containerCenter
                         - (v.positions[i].left + v.positions[i].width \div 2))
    IN  IF Len(v.positions) = 0
        THEN [v EXCEPT !.applied = FALSE, !.styles = {}]
        ELSE IF v.disableOpacityEffect /\ v.disableScaleEffect
        THEN [v EXCEPT !.applied = FALSE, !.styles = {}]
        ELSE [v EXCEPT !.applied = TRUE,
                       !.styles = {[index |-> i - 1,
                                    dist |-> distOf(i),
                                    scale |-> scaleOf(distOf(i), v.viewport),
                                    opacity |-> opacityOf(distOf(i), v.viewport)] :
                                      i \in processedChildren(v, currentScrollLeft)}]

\* offsets of the study: the first card centred, then on by half cards, a
\* little off the snap point or not
VisualOffsets(c) ==
    {(IF c.infinite THEN bufferBeforeWidth(c) ELSE 0) + k * StrideHalf + e :
        k \in 0..MaxVisualSteps, e \in {0, 6, 12}}

VisualsInit ==
    /\ cfg \in Configs
    /\ scrollLeft = (IF cfg.infinite THEN bufferBeforeWidth(cfg) ELSE 0)
    /\ allItems = buildAllItems(cfg)
    /\ drag = createDrag
    /\ layout = createLayout
    /\ reach = createReach
    /\ activeItem = createActive
    /\ hook = createHook
    /\ visuals \in {[createVisuals EXCEPT !.viewport = w,
                                          !.disableOpacityEffect = o,
                                          !.disableScaleEffect = s,
                                          !.styles = {}] :
                       w \in Viewports, o \in BOOLEAN, s \in BOOLEAN}
    /\ CoordinatorAtRest

\* updateCache(el)
VisualsUpdateCache ==
    /\ visuals' = [visuals EXCEPT !.positions = measuredPositions(cfg)]
    /\ UNCHANGED <<cfg, scrollLeft, allItems, drag, layout, reach, activeItem, hook,
                   coordinatorVars>>

\* the viewport moves to x and the scroll handler calls applyVisuals(el)
VisualsApply(x) ==
    /\ scrollLeft' = x
    /\ visuals' = applyVisuals(visuals, x)
    /\ UNCHANGED <<cfg, allItems, drag, layout, reach, activeItem, hook,
                   coordinatorVars>>

VisualsNext ==
    \/ VisualsUpdateCache
    \/ \E x \in VisualOffsets(cfg) : VisualsApply(x)

VisualsSpec == VisualsInit /\ [][VisualsNext]_vars

\* C33: among the children one applyVisuals call processes, scale and
\* opacity do not grow with the distance from the container centre, scale
\* lies in [baseScale, 1] and opacity in [0.5, 1], and scale is baseScale at
\* every distance of maxDist or more
C33_VisualsFallOffWithDistance ==
    \A s \in visuals.styles :
        /\ ~visuals.disableScaleEffect =>
              /\ s.scale >= baseScale(visuals.viewport) * easeDen(visuals.viewport)
              /\ s.scale <= 100 * easeDen(visuals.viewport)
              /\ s.dist >= maxDist(visuals.viewport) =>
                    s.scale = baseScale(visuals.viewport) * easeDen(visuals.viewport)
              /\ \A t \in visuals.styles : s.dist <= t.dist => s.scale >= t.scale
        /\ ~visuals.disableOpacityEffect =>
              /\ s.opacity >= easeDen(visuals.viewport)
              /\ s.opacity <= 2 * easeDen(visuals.viewport)
              /\ \A t \in visuals.styles : s.dist <= t.dist => s.opacity >= t.opacity

\* a call that styled a child within CENTER_THRESHOLD of the centre, one
\* further out with a smaller scale and opacity, and one beyond maxDist
C33_Witness ==
    /\ visuals.applied
    /\ ~visuals.disableScaleEffect
    /\ ~visuals.disableOpacityEffect
    /\ \E s, t, u \in visuals.styles :
          /\ s.dist > 0 /\ s.dist < CENTER_THRESHOLD
          /\ t.dist > s.dist /\ t.dist < maxDist(visuals.viewport)
          /\ t.scale < s.scale /\ t.opacity < s.opacity
          /\ u.dist > maxDist(visuals.viewport)
          /\ u.scale < t.scale

====
